---- MODULE Spec2Model ----
(***************************************************************************)
(* quiz-p2p: the signaling mailbox relay (src/app/api/signaling/route.ts), *)
(* the signaling client (src/app/services/signaling.ts, first class) and   *)
(* the peer connection negotiation engine (src/unnamed/part_000,           *)
(* RTCService).                                                            *)
(*                                                                         *)
(* Three specifications over one set of variables:                         *)
(*   StoreSpec  the Mailbox Store alone, requests with arbitrary           *)
(*              parameters (server clock in milliseconds);                 *)
(*   SigSpec    SignalingService clients driving the Mailbox Store;        *)
(*   Spec       two RTCService instances negotiating through the relay,    *)
(*              timers and transport events at any time;                   *)
(*   LiveSpec   the same instances with a transport that always succeeds,  *)
(*              fair scheduling, and connect timeouts that are long        *)
(*              against a negotiation round.                               *)
(***************************************************************************)
EXTENDS Integers, Sequences, FiniteSets, Bags, TLC

VARIABLES
    now,        \* the server's Date.now() (route.ts:67), in milliseconds
    rooms,      \* route.ts:28  const rooms = new Map<string, RoomInfo>()
    nextId,     \* next fresh payload identity handed to a deposit (ghost)
    deposits,   \* ghost log of the records the store accepted
    pollLog,    \* ghost log of the Observer's last poll and the one before it
    sig,        \* per client, the fields of its SignalingService
    inflight,   \* poll responses the store has sent and the client not yet read
    dispatched, \* ghost: per client, the payloads handed to onOffer / onAnswer
    cycles,     \* ghost: per client, the server time of its last completed poll cycle
    svc,        \* per RTCService instance, its fields (part_000:57-61) and timers
    relay,      \* the room of the Mailbox Store as the RTCService instances see it
    faults,     \* transport failures and repeated deliveries injected so far
    log         \* ghost: the handler calls made by the last step

storeVars == <<now, rooms, nextId, deposits, pollLog>>
sigVars == <<sig, inflight, dispatched, cycles>>
rtcVars == <<svc, relay, faults, log>>

(***************************************************************************)
(* Bounds of the model.                                                    *)
(***************************************************************************)
TickMs == 45000
MaxTicks == 2
MaxDeposits == 2
MaxInflight == 1

(***************************************************************************)
(* Program constants.                                                      *)
(***************************************************************************)
RETENTION_MS == 60000
PEER_TIMEOUT == 2 * 60 * 1000
ROOM_TIMEOUT == 24 * 60 * 60 * 1000
StartMs == 60000

RoomIds == {"R1"}
PeerIds == {"H", "A"}
NoHost == "undefined"
MaxNow == StartMs + MaxTicks * TickMs
Times == {StartMs + k * TickMs : k \in 0..MaxTicks}

(***************************************************************************)
(* The Mailbox Store: route.ts.  A room's `peers` Map is a sequence of     *)
(* mailboxes in insertion order (the order Map.values() iterates in).      *)
(***************************************************************************)
NoRoom == [exists |-> FALSE, hostPeerId |-> NoHost, peers |-> <<>>,
           created |-> 0, lastActivity |-> 0]

NewRoom(t) == [exists |-> TRUE, hostPeerId |-> NoHost, peers |-> <<>>,
               created |-> t, lastActivity |-> t]

NewPeerInfo(id, seen) == [peerId |-> id, lastSeen |-> seen,
                          offers |-> <<>>, answers |-> <<>>]

PeerIndex(peers, id) ==
    IF \E i \in 1..Len(peers) : peers[i].peerId = id
    THEN CHOOSE i \in 1..Len(peers) : peers[i].peerId = id
    ELSE 0

HasPeer(peers, id) == PeerIndex(peers, id) # 0

RECURSIVE FlatMap(_, _)
FlatMap(peers, field) ==
    IF peers = <<>> THEN <<>>
    ELSE (IF field = "offers" THEN Head(peers).offers ELSE Head(peers).answers)
         \o FlatMap(Tail(peers), field)

Range(s) == {s[i] : i \in 1..Len(s)}

\* route.ts:69-94: every request with action, roomId and peerId creates the
\* room and the caller's mailbox when absent and refreshes the time stamps.
Touch(R, roomId, peerId, t) ==
    LET r0 == IF R[roomId].exists THEN R[roomId] ELSE NewRoom(t)
        r1 == [r0 EXCEPT !.lastActivity = t]
        ps == IF HasPeer(r1.peers, peerId) THEN r1.peers
              ELSE Append(r1.peers, NewPeerInfo(peerId, t))
        i  == PeerIndex(ps, peerId)
    IN  [R EXCEPT ![roomId] = [r1 EXCEPT !.peers = [ps EXCEPT ![i].lastSeen = t]]]

\* The ids of the other peers among `keep`, in mailbox order, with the host flag.
PeerList(room, peerId, keep) ==
    LET ids == [i \in 1..Len(room.peers) |-> room.peers[i].peerId]
        KeepOther(id) == id # peerId /\ id \in keep
        kept == SelectSeq(ids, KeepOther)
    IN  [i \in 1..Len(kept) |-> [peerId |-> kept[i], isHost |-> kept[i] = room.hostPeerId]]

\* JoinOp without the filter `id !== peerId` of route.ts:106.
JoinOp_IncludesCaller(R, roomId, peerId, isHost, t) ==
    LET R1 == Touch(R, roomId, peerId, t)
        R2 == IF isHost THEN [R1 EXCEPT ![roomId].hostPeerId = peerId] ELSE R1
    IN  [rooms |-> R2,
         resp  |-> [action |-> "join", peerId |-> peerId, status |-> 200,
                    success |-> TRUE, peers |-> PeerList(R2[roomId], "", PeerIds),
                    offers |-> <<>>, answers |-> <<>>, since |-> 0, timestamp |-> 0]]

\* route.ts:98-118
JoinOp(R, roomId, peerId, isHost, t) ==
    LET R1 == Touch(R, roomId, peerId, t)
        R2 == IF isHost THEN [R1 EXCEPT ![roomId].hostPeerId = peerId] ELSE R1
    IN  [rooms |-> R2,
         resp  |-> [action |-> "join", peerId |-> peerId, status |-> 200,
                    success |-> TRUE, peers |-> PeerList(R2[roomId], peerId, PeerIds),
                    offers |-> <<>>, answers |-> <<>>, since |-> 0, timestamp |-> 0]]

Failure(action, peerId, code) ==
    [action |-> action, peerId |-> peerId, status |-> code, success |-> FALSE,
     peers |-> <<>>, offers |-> <<>>, answers |-> <<>>, since |-> 0, timestamp |-> 0]

Success(action, peerId) ==
    [action |-> action, peerId |-> peerId, status |-> 200, success |-> TRUE,
     peers |-> <<>>, offers |-> <<>>, answers |-> <<>>, since |-> 0, timestamp |-> 0]

\* OfferOp creating the target's mailbox before it validates the request.
OfferOp_MailboxBeforeCheck(R, roomId, peerId, target, payload, t) ==
    LET R1 == Touch(R, roomId, peerId, t)
        ps == IF HasPeer(R1[roomId].peers, target) THEN R1[roomId].peers
              ELSE Append(R1[roomId].peers, NewPeerInfo(target, t - 60000))
        i  == PeerIndex(ps, target)
        rec == [from |-> peerId, offer |-> payload, timestamp |-> t]
    IN  IF target = "" \/ payload = 0
        THEN [rooms |-> [R1 EXCEPT ![roomId].peers = ps],
              resp |-> Failure("offer", peerId, 400)]
        ELSE [rooms |-> [R1 EXCEPT ![roomId].peers =
                            [ps EXCEPT ![i].offers = Append(@, rec)]],
              resp  |-> Success("offer", peerId)]

\* route.ts:120-144.  target = "" stands for a missing target, payload = 0
\* for a missing offer.
OfferOp(R, roomId, peerId, target, payload, t) ==
    LET R1 == Touch(R, roomId, peerId, t)
        ps == IF HasPeer(R1[roomId].peers, target) THEN R1[roomId].peers
              ELSE Append(R1[roomId].peers, NewPeerInfo(target, t - 60000))
        i  == PeerIndex(ps, target)
        rec == [from |-> peerId, offer |-> payload, timestamp |-> t]
    IN  IF target = "" \/ payload = 0
        THEN [rooms |-> R1, resp |-> Failure("offer", peerId, 400)]
        ELSE [rooms |-> [R1 EXCEPT ![roomId].peers =
                            [ps EXCEPT ![i].offers = Append(@, rec)]],
              resp  |-> Success("offer", peerId)]

\* route.ts:146-165
AnswerOp(R, roomId, peerId, target, payload, t) ==
    LET R1 == Touch(R, roomId, peerId, t)
        ps == R1[roomId].peers
        i  == PeerIndex(ps, target)
        rec == [from |-> peerId, offer |-> payload, timestamp |-> t]
    IN  IF target = "" \/ payload = 0
        THEN [rooms |-> R1, resp |-> Failure("answer", peerId, 400)]
        ELSE IF ~HasPeer(ps, target)
        THEN [rooms |-> R1, resp |-> Failure("answer", peerId, 404)]
        ELSE [rooms |-> [R1 EXCEPT ![roomId].peers =
                            [ps EXCEPT ![i].answers = Append(@, rec)]],
              resp  |-> Success("answer", peerId)]

\* route.ts:57-94, 201-202: a request whose action is none of join, offer,
\* answer and poll.
InvalidOp(R, roomId, peerId, t) ==
    [rooms |-> Touch(R, roomId, peerId, t), resp |-> Failure("invalid", peerId, 400)]

\* PollOp with the cursor test `timestamp >= lastPoll` in place of `>`.
PollOp_InclusiveCursor(R, roomId, peerId, lastPoll, t) ==
    LET R1 == Touch(R, roomId, peerId, t)
        ps == R1[roomId].peers
        Newer(o) == o.from # peerId /\ o.timestamp >= lastPoll
        offers  == SelectSeq(FlatMap(ps, "offers"), Newer)
        answers == SelectSeq(FlatMap(ps, "answers"), Newer)
        Retained(o) == o.timestamp > t - 60000
        pruned == [i \in 1..Len(ps) |->
                     [ps[i] EXCEPT !.offers = SelectSeq(@, Retained),
                                   !.answers = SelectSeq(@, Retained)]]
        seen == {ps[i].peerId : i \in {j \in 1..Len(ps) : ps[j].lastSeen > lastPoll}}
    IN  [rooms |-> [R1 EXCEPT ![roomId].peers = pruned],
         resp  |-> [action |-> "poll", peerId |-> peerId, status |-> 200,
                    success |-> TRUE, peers |-> PeerList(R1[roomId], peerId, seen),
                    offers |-> offers, answers |-> answers,
                    since |-> lastPoll, timestamp |-> t]]

\* route.ts:167-199.  lastPoll = 0 also stands for a missing cursor
\* (body.lastPoll || 0).
PollOp(R, roomId, peerId, lastPoll, t) ==
    LET R1 == Touch(R, roomId, peerId, t)
        ps == R1[roomId].peers
        Newer(o) == o.from # peerId /\ o.timestamp > lastPoll
        offers  == SelectSeq(FlatMap(ps, "offers"), Newer)
        answers == SelectSeq(FlatMap(ps, "answers"), Newer)
        Retained(o) == o.timestamp > t - 60000
        pruned == [i \in 1..Len(ps) |->
                     [ps[i] EXCEPT !.offers = SelectSeq(@, Retained),
                                   !.answers = SelectSeq(@, Retained)]]
        seen == {ps[i].peerId : i \in {j \in 1..Len(ps) : ps[j].lastSeen > lastPoll}}
    IN  [rooms |-> [R1 EXCEPT ![roomId].peers = pruned],
         resp  |-> [action |-> "poll", peerId |-> peerId, status |-> 200,
                    success |-> TRUE, peers |-> PeerList(R1[roomId], peerId, seen),
                    offers |-> offers, answers |-> answers,
                    since |-> lastPoll, timestamp |-> t]]

\* route.ts:36-55: the cleanup interval.
RECURSIVE SweepRooms(_, _, _)
SweepRooms(R, todo, t) ==
    IF todo = {} THEN R
    ELSE LET id == CHOOSE x \in todo : TRUE
             Alive(p) == ~(t - p.lastSeen > PEER_TIMEOUT)
             ps == SelectSeq(R[id].peers, Alive)
             r1 == [R[id] EXCEPT !.peers = ps]
             r2 == IF t - r1.lastActivity > ROOM_TIMEOUT \/ Len(ps) = 0
                   THEN NoRoom ELSE r1
         IN  SweepRooms([R EXCEPT ![id] = IF R[id].exists THEN r2 ELSE R[id]],
                        todo \ {id}, t)

\* The cleanup without the removal of rooms (route.ts:49-53 left out).
SweepOp_KeepsRooms(R, t) ==
    LET Alive(p) == ~(t - p.lastSeen > PEER_TIMEOUT)
    IN  [id \in RoomIds |-> [R[id] EXCEPT !.peers = SelectSeq(@, Alive)]]

SweepOp(R, t) == SweepRooms(R, RoomIds, t)

(***************************************************************************)
(* RTCService: src/unnamed/part_000.  Two instances, "H" and "A", share    *)
(* the room, so an instance's `connections` Map has one key, the other     *)
(* instance's id.  The PeerConnection objects of an instance live in       *)
(* `recs`; `table` is the Map's entry for that key (0: no entry).  An      *)
(* object that left the Map without being closed would stay in `recs`.     *)
(***************************************************************************)
MaxRecs == 2
MaxPending == 1
MaxBox == 1
MaxFaults == 1

\* part_000:27-37
ConnectionState == {"NEW", "CONNECTING", "OFFER_SENT", "OFFER_RECEIVED", "ANSWER_SENT",
                    "ANSWER_RECEIVED", "CONNECTED", "DISCONNECTED", "FAILED"}

\* part_000:124-125
Terminal == {"DISCONNECTED", "FAILED"}

Other(s) == CHOOSE p \in PeerIds : p # s

\* The negotiation step suspended at an await of a record: which function,
\* at which await ("sdp": the session description calls of the transport,
\* "send": the signaling request), and whether handleAnswer waits for it to
\* schedule its retry (part_000:401-403).
NoOp == [fn |-> "none", phase |-> "none", retry |-> FALSE]

\* part_000:39-48.  `announced` (ghost) counts the onConnectionCallback
\* calls made for the record since `connected` was last false.
\* `connection` is spread over signalingState,
\* localDescription, remoteDescription, connectionState, iceConnectionState;
\* dataChannel is the channel's readyState ("none": no channel).
FreeSlot == [used |-> FALSE, peerId |-> "", isHost |-> FALSE, isInitiator |-> FALSE,
             connected |-> FALSE, state |-> "NEW", processingSignal |-> FALSE,
             dataChannel |-> "none", signalingState |-> "stable",
             localDescription |-> "none", remoteDescription |-> "none",
             connectionState |-> "new", iceConnectionState |-> "new", op |-> NoOp,
             announced |-> 0]

\* part_000:141-163
NewRecord(peerId, isHost, isInitiator) ==
    [FreeSlot EXCEPT !.used = TRUE, !.peerId = peerId, !.isHost = isHost,
                     !.isInitiator = isInitiator,
                     !.dataChannel = IF isInitiator THEN "connecting" ELSE "none"]

\* part_000:70-81.  timers: the pending setTimeout callbacks; staleClose: a
\* close event pending on a data channel that teardown closed.  out, calls
\* and micro are used within one step only: the signaling requests whose
\* response arrived, the handler calls made, and the handleOffer calls
\* suspended at `await this.connectToPeer` (part_000:336).  startOutcome
\* (ghost): how the promise of start() settled; initFailed (ghost): the
\* join request or the creation of the transport session failed during
\* start(); errorReported (ghost): onErrorCallback was called.  transport:
\* whether the browser has RTCPeerConnection (the constructor of line 141
\* throws when it has not).
NewService(isHost) ==
    [isHost |-> isHost, status |-> "idle", recs |-> [i \in 1..MaxRecs |-> FreeSlot],
     table |-> 0, timers |-> EmptyBag, staleClose |-> FALSE,
     out |-> <<>>, calls |-> <<>>, micro |-> 0,
     startOutcome |-> "none", initFailed |-> FALSE, errorReported |-> FALSE,
     transport |-> TRUE]

\* The room as two polling clients see it (route.ts): who has a mailbox, the
\* designated host, whether the other peer's lastSeen is past one's cursor
\* (touched), and per target the deposited records no poll returned yet.
EmptyRelay ==
    [mailbox |-> [s \in PeerIds |-> FALSE], hostPeerId |-> NoHost,
     touched |-> [s \in PeerIds |-> FALSE],
     box |-> [s \in PeerIds |-> [offers |-> 0, answers |-> 0]]]

NoLog == <<>>

Rec(L) == L.recs[L.table]

Logged(L, fn, pre, out) ==
    [L EXCEPT !.calls = Append(@, [fn |-> fn, pre |-> pre, out |-> out])]

\* setTimeout(...): one more pending callback of that kind.
AddTimer(L, kind, isHost, isInitiator) ==
    LET k == [kind |-> kind, isHost |-> isHost, isInitiator |-> isInitiator]
    IN  [L EXCEPT !.timers = IF CopiesIn(k, @) < MaxPending
                             THEN @ (+) SetToBag({k}) ELSE @]

DropTimer(L, k) == [L EXCEPT !.timers = @ (-) SetToBag({k})]

\* part_000:130-136 (and 550-555): the data channel and the connection are
\* closed and the entry deleted.  A description call pending on the closed
\* connection never settles; a signaling request under way completes, and
\* what follows it runs on the deleted object.
Teardown(L) ==
    LET r == Rec(L)
        sending == r.op.phase = "send"
        L1 == [L EXCEPT !.recs[L.table] = FreeSlot, !.table = 0,
                        !.staleClose = @ \/ r.dataChannel \in {"connecting", "open"},
                        !.out = IF sending
                                THEN Append(@, IF r.op.fn = "createAndSendOffer"
                                               THEN "offer" ELSE "answer")
                                ELSE @]
    IN  IF sending /\ r.op.retry THEN AddTimer(L1, "handleAnswer", FALSE, FALSE) ELSE L1

\* createAndSendOffer without the invalidStates check of lines 294-305.
CreateAndSendOffer_NoStateCheck(L) ==
    IF L.table = 0 THEN L
    ELSE LET r == Rec(L)
         IN  IF r.state = "CONNECTED" THEN L
             ELSE IF r.processingSignal
                  THEN AddTimer(L, "createAndSendOffer", FALSE, FALSE)
             ELSE [L EXCEPT !.recs[L.table] =
                      [r EXCEPT !.processingSignal = TRUE, !.state = "CONNECTING",
                                !.op = [fn |-> "createAndSendOffer", phase |-> "sdp",
                                        retry |-> FALSE]]]

\* part_000:272-311, up to the first await.
CreateAndSendOffer(L) ==
    IF L.table = 0 THEN L
    ELSE LET r == Rec(L)
         IN  IF r.state = "CONNECTED" THEN L
             ELSE IF r.processingSignal
                  THEN AddTimer(L, "createAndSendOffer", FALSE, FALSE)
             ELSE IF r.state \in {"OFFER_SENT", "OFFER_RECEIVED", "ANSWER_SENT",
                                  "ANSWER_RECEIVED", "CONNECTED"}
                  THEN L
             ELSE [L EXCEPT !.recs[L.table] =
                      [r EXCEPT !.processingSignal = TRUE, !.state = "CONNECTING",
                                !.op = [fn |-> "createAndSendOffer", phase |-> "sdp",
                                        retry |-> FALSE]]]

\* connectToPeer without lines 121-137: no look at the existing entry, the
\* new record overwrites it in the table and the old one is left as it is.
ConnectToPeer_NoExistingCheck(L, self, peerId, isHost, isInitiator) ==
    IF peerId = self THEN L
    ELSE LET free == {i \in 1..MaxRecs : ~L.recs[i].used}
         IN  IF free = {} THEN L
             ELSE LET i == CHOOSE k \in free : \A j \in free : k <= j
                      L2 == [L EXCEPT !.recs[i] = NewRecord(peerId, isHost, isInitiator),
                                      !.table = i]
                      L3 == AddTimer(L2, "timeout", isHost, isInitiator)
                  IN  IF isInitiator THEN CreateAndSendOffer(L3) ELSE L3

\* part_000:114-269, up to the first await.  Without transport the
\* constructor throws after the old entry is gone; the catch block of line
\* 266 reports the error and no entry is set.
ConnectToPeer(L, self, peerId, isHost, isInitiator) ==
    LET existing == L.table # 0
    IN  IF peerId = self THEN L
        ELSE IF existing /\ Rec(L).state \notin Terminal THEN L
        ELSE LET L1 == IF existing THEN Teardown(L) ELSE L
                 free == {i \in 1..MaxRecs : ~L1.recs[i].used}
             IN  IF ~L.transport THEN [L1 EXCEPT !.errorReported = TRUE]
                 ELSE IF free = {} THEN L1
                 ELSE LET i == CHOOSE k \in free : \A j \in free : k <= j
                          L2 == [L1 EXCEPT !.recs[i] = NewRecord(peerId, isHost, isInitiator),
                                           !.table = i]
                          L3 == AddTimer(L2, "timeout", isHost, isInitiator)
                      IN  IF isInitiator THEN CreateAndSendOffer(L3) ELSE L3

\* handlePeerJoin without the isHost test of line 106.
HandlePeerJoin_AnyRole(L, self, peerId, peerIsHost) ==
    ConnectToPeer(L, self, peerId, peerIsHost, TRUE)

\* part_000:103-111
HandlePeerJoin(L, self, peerId, peerIsHost) ==
    IF L.isHost THEN ConnectToPeer(L, self, peerId, peerIsHost, TRUE) ELSE L

\* handleOffer with ANSWER_RECEIVED missing from invalidStates (line 360).
HandleOfferBody_AcceptsAfterAnswer(L) ==
    LET r == Rec(L)
    IN  IF r.state = "CONNECTED" THEN Logged(L, "handleOffer", r.state, "ignored")
        ELSE IF r.processingSignal
             THEN Logged(AddTimer(L, "handleOffer", FALSE, FALSE),
                         "handleOffer", r.state, "retry")
        ELSE IF r.state \in {"OFFER_SENT", "CONNECTED"}
             THEN Logged(L, "handleOffer", r.state, "rejected")
        ELSE Logged([L EXCEPT !.recs[L.table] =
                        [r EXCEPT !.processingSignal = TRUE, !.state = "OFFER_RECEIVED",
                                  !.op = [fn |-> "handleOffer", phase |-> "sdp",
                                          retry |-> FALSE]]],
                    "handleOffer", r.state, "started")

\* handleOffer without the processingSignal test of lines 347-352.
HandleOfferBody_NoLockCheck(L) ==
    LET r == Rec(L)
    IN  IF r.state = "CONNECTED" THEN Logged(L, "handleOffer", r.state, "ignored")
        ELSE IF r.state \in {"OFFER_SENT", "ANSWER_RECEIVED", "CONNECTED"}
             THEN Logged(L, "handleOffer", r.state, "rejected")
        ELSE Logged([L EXCEPT !.recs[L.table] =
                        [r EXCEPT !.processingSignal = TRUE, !.state = "OFFER_RECEIVED",
                                  !.op = [fn |-> "handleOffer", phase |-> "sdp",
                                          retry |-> FALSE]]],
                    "handleOffer", r.state, "started")

\* part_000:341-371, on the record found, up to the first await.
HandleOfferBody(L) ==
    LET r == Rec(L)
    IN  IF r.state = "CONNECTED" THEN Logged(L, "handleOffer", r.state, "ignored")
        ELSE IF r.processingSignal
             THEN Logged(AddTimer(L, "handleOffer", FALSE, FALSE),
                         "handleOffer", r.state, "retry")
        ELSE IF r.state \in {"OFFER_SENT", "ANSWER_RECEIVED", "CONNECTED"}
             THEN Logged(L, "handleOffer", r.state, "rejected")
        ELSE Logged([L EXCEPT !.recs[L.table] =
                        [r EXCEPT !.processingSignal = TRUE, !.state = "OFFER_RECEIVED",
                                  !.op = [fn |-> "handleOffer", phase |-> "sdp",
                                          retry |-> FALSE]]],
                    "handleOffer", r.state, "started")

\* part_000:330-339: with no record the call creates one and is suspended
\* at the await; it resumes after the calls the poll makes in the same turn.
HandleOffer(L, self, from) ==
    IF L.table = 0
    THEN [ConnectToPeer(L, self, from, FALSE, FALSE) EXCEPT !.micro = @ + 1]
    ELSE HandleOfferBody(L)

RECURSIVE RunMicrotasks(_)
RunMicrotasks(L) ==
    IF L.micro = 0 THEN L
    ELSE LET L1 == [L EXCEPT !.micro = @ - 1]
         IN  RunMicrotasks(IF L1.table = 0 THEN L1 ELSE HandleOfferBody(L1))

\* handleAnswer with ANSWER_RECEIVED missing from invalidStates (line 426).
HandleAnswer_AcceptsAfterAnswer(L, self, from) ==
    IF L.table = 0
    THEN LET L1 == ConnectToPeer(L, self, from, FALSE, TRUE)
             L2 == IF L1.table # 0 /\ Rec(L1).op.fn = "createAndSendOffer"
                   THEN [L1 EXCEPT !.recs[L1.table].op.retry = TRUE]
                   ELSE AddTimer(L1, "handleAnswer", FALSE, FALSE)
         IN  Logged(L2, "handleAnswer", "none", "deferred")
    ELSE LET r == Rec(L)
         IN  IF r.state = "CONNECTED" THEN Logged(L, "handleAnswer", r.state, "ignored")
             ELSE IF r.processingSignal
                  THEN Logged(AddTimer(L, "handleAnswer", FALSE, FALSE),
                              "handleAnswer", r.state, "retry")
             ELSE IF r.state \in {"CONNECTED"}
                  THEN Logged(L, "handleAnswer", r.state, "rejected")
             ELSE Logged([L EXCEPT !.recs[L.table] =
                             [r EXCEPT !.processingSignal = TRUE,
                                       !.op = [fn |-> "handleAnswer", phase |-> "sdp",
                                               retry |-> FALSE]]],
                         "handleAnswer", r.state, "started")

\* part_000:394-434, up to the first await.
HandleAnswer(L, self, from) ==
    IF L.table = 0
    THEN LET L1 == ConnectToPeer(L, self, from, FALSE, TRUE)
             L2 == IF L1.table # 0 /\ Rec(L1).op.fn = "createAndSendOffer"
                   THEN [L1 EXCEPT !.recs[L1.table].op.retry = TRUE]
                   ELSE AddTimer(L1, "handleAnswer", FALSE, FALSE)
         IN  Logged(L2, "handleAnswer", "none", "deferred")
    ELSE LET r == Rec(L)
         IN  IF r.state = "CONNECTED" THEN Logged(L, "handleAnswer", r.state, "ignored")
             ELSE IF r.processingSignal
                  THEN Logged(AddTimer(L, "handleAnswer", FALSE, FALSE),
                              "handleAnswer", r.state, "retry")
             ELSE IF r.state \in {"ANSWER_RECEIVED", "CONNECTED"}
                  THEN Logged(L, "handleAnswer", r.state, "rejected")
             ELSE Logged([L EXCEPT !.recs[L.table] =
                             [r EXCEPT !.processingSignal = TRUE,
                                       !.op = [fn |-> "handleAnswer", phase |-> "sdp",
                                               retry |-> FALSE]]],
                         "handleAnswer", r.state, "started")

RECURSIVE DispatchOffers(_, _, _, _)
DispatchOffers(L, self, from, n) ==
    IF n = 0 THEN L ELSE DispatchOffers(HandleOffer(L, self, from), self, from, n - 1)

RECURSIVE DispatchAnswers(_, _, _, _)
DispatchAnswers(L, self, from, n) ==
    IF n = 0 THEN L ELSE DispatchAnswers(HandleAnswer(L, self, from), self, from, n - 1)

\* signaling.ts:164-195 with the callbacks RTCService registered
\* (part_000:77-79): new peers, then offers, then answers, then the
\* suspended calls resume.
Dispatch(L, self, from, newPeer, peerIsHost, offers, answers) ==
    LET L1 == IF newPeer THEN HandlePeerJoin(L, self, from, peerIsHost) ELSE L
    IN  RunMicrotasks(DispatchAnswers(DispatchOffers(L1, self, from, offers),
                                      self, from, answers))

\* As SdpOutcomes, with handleAnswer not setting ANSWER_RECEIVED (line 437).
SdpOutcomes_AnswerKeepsState(r) ==
    LET Thrown == [r EXCEPT !.processingSignal = FALSE, !.op = NoOp]
        Answered == [r EXCEPT !.signalingState = "stable", !.remoteDescription = "offer",
                              !.localDescription = "answer", !.state = "ANSWER_SENT",
                              !.op.phase = "send"]
    IN  CASE r.op.fn = "createAndSendOffer" ->
               {[r EXCEPT !.signalingState = "have-local-offer",
                          !.localDescription = "offer", !.state = "OFFER_SENT",
                          !.op.phase = "send"]}
          [] r.op.fn = "handleOffer" ->
               IF r.signalingState = "stable" THEN {Answered} ELSE {Answered, Thrown}
          [] OTHER ->
               IF r.signalingState = "have-local-offer"
               THEN {[r EXCEPT !.signalingState = "stable", !.remoteDescription = "answer",
                               !.processingSignal = FALSE, !.op = NoOp]}
               ELSE {Thrown}

\* As SdpOutcomes, without the finally blocks (lines 323-326, 384-387,
\* 440-443): a refused description call leaves processingSignal set.
SdpOutcomes_ThrowKeepsLock(r) ==
    LET Thrown == [r EXCEPT !.op = NoOp]
        Answered == [r EXCEPT !.signalingState = "stable", !.remoteDescription = "offer",
                              !.localDescription = "answer", !.state = "ANSWER_SENT",
                              !.op.phase = "send"]
    IN  CASE r.op.fn = "createAndSendOffer" ->
               {[r EXCEPT !.signalingState = "have-local-offer",
                          !.localDescription = "offer", !.state = "OFFER_SENT",
                          !.op.phase = "send"]}
          [] r.op.fn = "handleOffer" ->
               IF r.signalingState = "stable" THEN {Answered} ELSE {Answered, Thrown}
          [] OTHER ->
               IF r.signalingState = "have-local-offer"
               THEN {[r EXCEPT !.signalingState = "stable", !.remoteDescription = "answer",
                               !.state = "ANSWER_RECEIVED", !.processingSignal = FALSE,
                               !.op = NoOp]}
               ELSE {Thrown}

\* The ways the description calls a suspended step waits for can settle.
\* createAndSendOffer (311-315): createOffer and setLocalDescription.
\* handleOffer (370-378): setRemoteDescription(offer), createAnswer,
\* setLocalDescription; on a connection holding a local offer the remote
\* offer is applied after a rollback or refused, as the browser has it.
\* handleAnswer (433-437): setRemoteDescription(answer) is refused unless a
\* local offer is pending.  A refusal is caught and the lock released
\* (384-387, 440-443).
SdpOutcomes(r) ==
    LET Thrown == [r EXCEPT !.processingSignal = FALSE, !.op = NoOp]
        Answered == [r EXCEPT !.signalingState = "stable", !.remoteDescription = "offer",
                              !.localDescription = "answer", !.state = "ANSWER_SENT",
                              !.op.phase = "send"]
    IN  CASE r.op.fn = "createAndSendOffer" ->
               {[r EXCEPT !.signalingState = "have-local-offer",
                          !.localDescription = "offer", !.state = "OFFER_SENT",
                          !.op.phase = "send"]}
          [] r.op.fn = "handleOffer" ->
               IF r.signalingState = "stable" THEN {Answered} ELSE {Answered, Thrown}
          [] OTHER ->
               IF r.signalingState = "have-local-offer"
               THEN {[r EXCEPT !.signalingState = "stable", !.remoteDescription = "answer",
                               !.state = "ANSWER_RECEIVED", !.processingSignal = FALSE,
                               !.op = NoOp]}
               ELSE {Thrown}

\* part_000:198-208
OnConnected(r) ==
    [r EXCEPT !.connectionState = "connected", !.state = "CONNECTED", !.connected = TRUE,
              !.announced = IF r.connected THEN @ ELSE @ + 1]

\* part_000:209-228
OnLost(r, how) ==
    [r EXCEPT !.connectionState = how, !.connected = FALSE, !.announced = 0,
              !.state = IF how = "disconnected" THEN "DISCONNECTED" ELSE "FAILED"]

\* part_000:451-464
OnChannelOpen(r) ==
    [r EXCEPT !.dataChannel = "open", !.connected = TRUE, !.state = "CONNECTED",
              !.announced = @ + 1]

\* part_000:466-479
OnChannelClose(r) ==
    [r EXCEPT !.connected = FALSE, !.state = "DISCONNECTED", !.announced = 0]

\* part_000:529-537
getConnectedPeerCount(L) ==
    Cardinality({i \in 1..MaxRecs : i = L.table /\ L.recs[i].connected})

\* route.ts:69-94: any request of s creates or refreshes its mailbox.
RelayTouch(R, s) == [R EXCEPT !.mailbox[s] = TRUE, !.touched[Other(s)] = TRUE]

\* route.ts:120-165: an offer creates the target's mailbox when absent, an
\* answer for an absent target is refused.
RelayDeposit(R, from, kind) ==
    LET to == Other(from)
        R1 == RelayTouch(R, from)
        More(n) == IF n < MaxBox THEN n + 1 ELSE n
    IN  IF kind = "offer"
        THEN [R1 EXCEPT !.mailbox[to] = TRUE, !.box[to].offers = More(@)]
        ELSE IF R1.mailbox[to] THEN [R1 EXCEPT !.box[to].answers = More(@)] ELSE R1

RECURSIVE Flush(_, _, _)
Flush(R, from, out) ==
    IF out = <<>> THEN R ELSE Flush(RelayDeposit(R, from, Head(out)), from, Tail(out))

(***************************************************************************)
(* StoreSpec: the store under requests with arbitrary parameters.  The     *)
(* polls of one peer, the Observer, are logged: `cur` is its last poll,    *)
(* `prev` the poll before it when `cur` used the time stamp `prev`         *)
(* returned as its cursor (the store treats all peer ids alike).           *)
(***************************************************************************)
Observer == "A"

RecordsOf(resp) ==
    {[kind |-> "offer", from |-> resp.offers[i].from, id |-> resp.offers[i].offer,
      timestamp |-> resp.offers[i].timestamp] : i \in 1..Len(resp.offers)}
    \cup
    {[kind |-> "answer", from |-> resp.answers[i].from, id |-> resp.answers[i].offer,
      timestamp |-> resp.answers[i].timestamp] : i \in 1..Len(resp.answers)}

NoPoll == [since |-> 0 - 1, timestamp |-> 0 - 1, records |-> {}]

PollEntry(resp) ==
    [since |-> resp.since, timestamp |-> resp.timestamp, records |-> RecordsOf(resp)]

Chained(prev, resp) ==
    prev # NoPoll /\ resp.since = prev.timestamp /\ prev.since < prev.timestamp

\* signaling.ts:26-44: a constructed client; `joined` tells join() was called.
NewSignaling == [joined |-> FALSE, active |-> FALSE, polling |-> FALSE,
                 lastPollTimestamp |-> 0]

\* The empty store and freshly constructed clients; the RTCService
\* instances are constructed and never started.
Init ==
    /\ now = StartMs
    /\ rooms = [r \in RoomIds |-> NoRoom]
    /\ nextId = 1
    /\ deposits = {}
    /\ pollLog = [cur |-> NoPoll, prev |-> NoPoll]
    /\ sig = [c \in PeerIds |-> NewSignaling]
    /\ inflight = {}
    /\ dispatched = [c \in PeerIds |-> {}]
    /\ cycles = [c \in PeerIds |-> 0 - 1]
    /\ svc = [s \in PeerIds |-> NewService(s = "H")]
    /\ relay = EmptyRelay
    /\ faults = 0
    /\ log = NoLog

Tick ==
    /\ now < MaxNow
    /\ now' = now + TickMs
    /\ UNCHANGED <<rooms, nextId, deposits, pollLog>>

StoreJoin(roomId, peerId, isHost) ==
    /\ rooms' = JoinOp(rooms, roomId, peerId, isHost, now).rooms
    /\ UNCHANGED <<now, nextId, deposits, pollLog>>

StoreDeposit(kind, roomId, peerId, target) ==
    LET r == IF kind = "offer"
             THEN OfferOp(rooms, roomId, peerId, target, nextId, now)
             ELSE AnswerOp(rooms, roomId, peerId, target, nextId, now)
    IN  /\ nextId <= MaxDeposits
        /\ rooms' = r.rooms
        /\ nextId' = IF r.resp.success THEN nextId + 1 ELSE nextId
        /\ deposits' = IF r.resp.success
                       THEN deposits \cup {[id |-> nextId, kind |-> kind, from |-> peerId,
                                            target |-> target, timestamp |-> now]}
                       ELSE deposits
        /\ UNCHANGED <<now, pollLog>>

StorePoll(roomId, peerId, lastPoll) ==
    LET r == PollOp(rooms, roomId, peerId, lastPoll, now)
    IN  /\ rooms' = r.rooms
        /\ pollLog' = IF peerId = Observer
                      THEN [cur  |-> PollEntry(r.resp),
                            prev |-> IF Chained(pollLog.cur, r.resp)
                                     THEN pollLog.cur ELSE NoPoll]
                      ELSE pollLog
        /\ UNCHANGED <<now, nextId, deposits>>

StoreSweep ==
    /\ rooms' = SweepOp(rooms, now)
    /\ UNCHANGED <<now, nextId, deposits, pollLog>>

\* The request the store rejects: an unknown action, or an offer or answer
\* without target or payload or, an answer, for a target without mailbox.
RejectedOp(R, action, roomId, peerId, target, payload, t) ==
    CASE action = "offer"  -> OfferOp(R, roomId, peerId, target, payload, t)
      [] action = "answer" -> AnswerOp(R, roomId, peerId, target, payload, t)
      [] OTHER -> InvalidOp(R, roomId, peerId, t)

StoreReject(action, roomId, peerId, target, payload) ==
    LET r == RejectedOp(rooms, action, roomId, peerId, target, payload, now)
    IN  /\ ~r.resp.success
        /\ rooms' = r.rooms
        /\ UNCHANGED <<now, nextId, deposits, pollLog>>

StoreNext ==
    \/ Tick /\ UNCHANGED <<sigVars, rtcVars>>
    \/ /\ \E a \in {"offer", "answer", "invalid"}, r \in RoomIds, p \in PeerIds :
             \E q \in {""} \cup (PeerIds \ {p}) : StoreReject(a, r, p, q, 0)
       /\ UNCHANGED <<sigVars, rtcVars>>
    \/ /\ \E r \in RoomIds, p \in PeerIds, h \in BOOLEAN : StoreJoin(r, p, h)
       /\ UNCHANGED <<sigVars, rtcVars>>
    \/ /\ \E k \in {"offer", "answer"}, r \in RoomIds, p \in PeerIds :
             \E q \in PeerIds \ {p} : StoreDeposit(k, r, p, q)
       /\ UNCHANGED <<sigVars, rtcVars>>
    \/ /\ \E r \in RoomIds, c \in {0} \cup {t \in Times : t <= now} :
             StorePoll(r, Observer, c)
       /\ UNCHANGED <<sigVars, rtcVars>>
    \* a poll changes the store the same way whatever its cursor is
    \/ /\ \E r \in RoomIds, p \in PeerIds \ {Observer} : StorePoll(r, p, 0)
       /\ UNCHANGED <<sigVars, rtcVars>>
    \/ StoreSweep /\ UNCHANGED <<sigVars, rtcVars>>

vars == <<now, rooms, nextId, deposits, pollLog, sig, inflight, dispatched, cycles,
          svc, relay, faults, log>>

StoreSpec == Init /\ [][StoreNext]_vars

\* C8: for two sequential polls of one peer, the second with the time stamp
\* the first returned as its cursor (the first with a smaller cursor), the
\* second returns no record stamped at or before the first's cursor and no
\* record the first returned.
C8_PollMonotonic ==
    pollLog.prev # NoPoll =>
        /\ pollLog.cur.since = pollLog.prev.timestamp
        /\ \A r \in pollLog.cur.records : r.timestamp > pollLog.prev.since
        /\ pollLog.cur.records \cap pollLog.prev.records = {}

C8_Witness ==
    /\ pollLog.prev # NoPoll
    /\ pollLog.prev.records # {}
    /\ pollLog.prev.since > 0

\* C9: a record deposited at server time t is in no response of a poll made
\* at a server time later than t + 60 s, whatever the cursor.
C9_Retention ==
    \A r \in pollLog.cur.records : ~(pollLog.cur.timestamp > r.timestamp + RETENTION_MS)

(***************************************************************************)
(* SigSpec: SignalingService (signaling.ts:26-248) clients and the store.  *)
(***************************************************************************)
IsHostOf(c) == c = "H"

\* The client's own Date.now() while the server's clock reads t.
ClientClock(t) == {t, t + TickMs}

\* signaling.ts:47-82
SigJoin(c) ==
    /\ ~sig[c].joined
    /\ rooms' = JoinOp(rooms, "R1", c, IsHostOf(c), now).rooms
    /\ \E t \in ClientClock(now) :
          sig' = [sig EXCEPT ![c] = [joined |-> TRUE, active |-> TRUE, polling |-> TRUE,
                                     lastPollTimestamp |-> t]]
    /\ UNCHANGED <<now, nextId, deposits, pollLog, inflight, dispatched, cycles>>

\* signaling.ts:85-140: sendOffer / sendAnswer, one request each.
SigSend(c, kind, target) ==
    LET r == IF kind = "offer"
             THEN OfferOp(rooms, "R1", c, target, nextId, now)
             ELSE AnswerOp(rooms, "R1", c, target, nextId, now)
    IN  /\ nextId <= MaxDeposits
        /\ sig[c].active
        /\ rooms' = r.rooms
        /\ nextId' = IF r.resp.success THEN nextId + 1 ELSE nextId
        /\ deposits' = IF r.resp.success
                       THEN deposits \cup {[id |-> nextId, kind |-> kind, from |-> c,
                                            target |-> target, timestamp |-> now]}
                       ELSE deposits
        /\ UNCHANGED <<now, pollLog, sig, inflight, dispatched, cycles>>

\* signaling.ts:143-158, 203-211: the interval fires, poll() sends the cursor
\* and the store answers.
SigPoll(c) ==
    LET r == PollOp(rooms, "R1", c, sig[c].lastPollTimestamp, now)
    IN  /\ sig[c].polling
        /\ sig[c].active
        /\ Cardinality({m \in inflight : m.to = c}) < MaxInflight
        /\ rooms' = r.rooms
        /\ inflight' = inflight \cup {[to |-> c, resp |-> r.resp]}
        /\ UNCHANGED <<now, nextId, deposits, pollLog, sig, dispatched, cycles>>

\* The calls of PollCalls with the offers taken last to first.
PollCalls_NewestFirst(resp) ==
    <<[cb |-> "cursor", item |-> resp.timestamp]>>
    \o [i \in 1..Len(resp.peers) |-> [cb |-> "peerJoin", item |-> resp.peers[i]]]
    \o [i \in 1..Len(resp.offers) |->
           [cb |-> "offer", item |-> resp.offers[Len(resp.offers) + 1 - i]]]
    \o [i \in 1..Len(resp.answers) |-> [cb |-> "answer", item |-> resp.answers[i]]]

\* signaling.ts:166-195: what poll() does with a successful response, in
\* order: the assignment to lastPollTimestamp, then one callback call per
\* item of newPeers, of offers and of answers.
PollCalls(resp) ==
    <<[cb |-> "cursor", item |-> resp.timestamp]>>
    \o [i \in 1..Len(resp.peers) |-> [cb |-> "peerJoin", item |-> resp.peers[i]]]
    \o [i \in 1..Len(resp.offers) |-> [cb |-> "offer", item |-> resp.offers[i]]]
    \o [i \in 1..Len(resp.answers) |-> [cb |-> "answer", item |-> resp.answers[i]]]

\* signaling.ts:164-195: the response is read, the cursor set and every item
\* handed to its callback.
SigPollDone(m) ==
    /\ m \in inflight
    /\ inflight' = inflight \ {m}
    /\ IF m.resp.success
       THEN /\ sig' = [sig EXCEPT ![m.to].lastPollTimestamp = PollCalls(m.resp)[1].item]
            /\ dispatched' = [dispatched EXCEPT ![m.to] =
                                 @ \cup {PollCalls(m.resp)[i].item.offer :
                                            i \in {j \in 2..Len(PollCalls(m.resp)) :
                                                PollCalls(m.resp)[j].cb \in {"offer", "answer"}}}]
            /\ cycles' = [cycles EXCEPT ![m.to] = m.resp.timestamp]
       ELSE UNCHANGED <<sig, dispatched, cycles>>
    /\ UNCHANGED <<now, rooms, nextId, deposits, pollLog>>

\* signaling.ts:214-221
SigStop(c) ==
    /\ sig[c].active
    /\ sig' = [sig EXCEPT ![c].active = FALSE, ![c].polling = FALSE]
    /\ UNCHANGED <<now, rooms, nextId, deposits, pollLog, inflight, dispatched, cycles>>

SigNext ==
    \/ Tick /\ UNCHANGED <<sigVars, rtcVars>>
    \/ (\E c \in PeerIds : SigJoin(c)) /\ UNCHANGED rtcVars
    \/ /\ \E c \in PeerIds, k \in {"offer", "answer"} :
             \E q \in PeerIds \ {c} : SigSend(c, k, q)
       /\ UNCHANGED rtcVars
    \/ (\E c \in PeerIds : SigPoll(c)) /\ UNCHANGED rtcVars
    \/ (\E m \in inflight : SigPollDone(m)) /\ UNCHANGED rtcVars
    \/ (\E c \in PeerIds : SigStop(c)) /\ UNCHANGED rtcVars

SigSpec == Init /\ [][SigNext]_vars

\* C10: an offer or answer deposited for target T at server time t has been
\* handed to T's callbacks once T has completed a poll cycle served at a
\* time in (t, t + 60 s].
C10_AtLeastOnce ==
    \A c \in PeerIds : \A d \in deposits :
        (d.target = c /\ d.timestamp < cycles[c]
            /\ cycles[c] <= d.timestamp + RETENTION_MS)
        => d.id \in dispatched[c]

(***************************************************************************)
(* Spec: two RTCService instances and the relay.  Every step is one turn   *)
(* of an instance's event loop: a handler runs up to its first await.      *)
(* "H" is constructed as the host; "A" as a participant or, the            *)
(* constructor taking isHost from its caller (part_000:70), also as host:  *)
(* the instance with two peers in which both sides initiate.               *)
(***************************************************************************)
\* new RTCService(roomId, isHost) on both sides (part_000:70-81; the callers
\* are rtc-quiz.ts:62 and 85).
RTCInit ==
    /\ now = StartMs
    /\ rooms = [r \in RoomIds |-> NoRoom]
    /\ nextId = 1
    /\ deposits = {}
    /\ pollLog = [cur |-> NoPoll, prev |-> NoPoll]
    /\ sig = [c \in PeerIds |-> NewSignaling]
    /\ inflight = {}
    /\ dispatched = [c \in PeerIds |-> {}]
    /\ cycles = [c \in PeerIds |-> 0 - 1]
    /\ \E aIsHost \in BOOLEAN :
          svc = [s \in PeerIds |-> NewService(s = "H" \/ aIsHost)]
    /\ relay = EmptyRelay
    /\ faults = 0
    /\ log = NoLog

\* The step's result: the instance's fields, the requests it completed
\* handed to the store, and the handleOffer / handleAnswer calls it made.
\* `cost`: the step is a transport failure or a repeated delivery.  The
\* close event of a channel that teardown closed is delivered by some
\* browsers only; it counts as a failure as well.
Commit(s, L, R, cost) ==
    LET armed == L.staleClose /\ ~svc[s].staleClose
    IN  /\ \E kept \in {FALSE, armed /\ faults + cost < MaxFaults} :
              /\ svc' = [svc EXCEPT ![s] =
                            [L EXCEPT !.out = <<>>, !.calls = <<>>, !.micro = 0,
                                      !.staleClose = IF armed THEN kept ELSE @]]
              /\ faults' = faults + cost + (IF kept THEN 1 ELSE 0)
        /\ relay' = Flush(R, s, L.out)
        /\ log' = L.calls
        /\ UNCHANGED <<storeVars, sigVars>>

\* The two connections hold each other's descriptions: one offered and got
\* the answer, the other answered.
Linked(s) ==
    LET L == svc[s]
        P == svc[Other(s)]
    IN  /\ L.table # 0
        /\ P.table # 0
        /\ Rec(L).signalingState = "stable"
        /\ Rec(P).signalingState = "stable"
        /\ {Rec(L).localDescription, Rec(P).localDescription} = {"offer", "answer"}
        /\ Rec(L).remoteDescription = Rec(P).localDescription
        /\ Rec(P).remoteDescription = Rec(L).localDescription
        /\ Rec(L).iceConnectionState # "failed"
        /\ Rec(L).connectionState # "failed"

\* How the promise of an async function settles whose body is wrapped in
\* try / catch with a catch block that reports and does not rethrow:
\* join() (signaling.ts:48, 78-81), connectToPeer (part_000:139, 266-268)
\* and start() (part_000:85, 97-99).
CaughtOutcome(thrown) == [settled |-> "resolved", reported |-> thrown]

\* part_000:84-100 with signaling.ts:47-82 and route.ts:98-118.
Start(s) ==
    LET p == Other(s)
        R1 == [relay EXCEPT !.mailbox[s] = TRUE, !.touched[p] = TRUE,
                            !.touched[s] = FALSE,
                            !.hostPeerId = IF svc[s].isHost THEN s ELSE @]
        connects == svc[s].isHost /\ relay.mailbox[p]
        L0 == [svc[s] EXCEPT !.status = "started",
                             !.startOutcome = CaughtOutcome(FALSE).settled,
                             !.initFailed = connects /\ ~svc[s].transport]
        L1 == IF connects
              THEN ConnectToPeer(L0, s, p, p = R1.hostPeerId, TRUE) ELSE L0
    IN  /\ svc[s].status = "idle"
        /\ Commit(s, L1, R1, 0)

\* signaling.ts:143-200 with route.ts:167-199.  `again`: a second poll sent
\* with the same cursor (the first one's response was late) returns the
\* records once more.
Poll(s, again) ==
    LET p == Other(s)
        box == relay.box[s]
        R1 == [relay EXCEPT !.mailbox[s] = TRUE, !.touched[p] = TRUE,
                            !.touched[s] = FALSE,
                            !.box[s] = IF again THEN @ ELSE [offers |-> 0, answers |-> 0]]
        L1 == Dispatch(svc[s], s, p, relay.mailbox[p] /\ relay.touched[s],
                       p = relay.hostPeerId, box.offers, box.answers)
    IN  /\ svc[s].status = "started"
        /\ again => faults < MaxFaults /\ box.offers + box.answers > 0
        /\ Commit(s, L1, R1, IF again THEN 1 ELSE 0)

\* The description calls of a suspended step settle.
SdpSettle(s, i) ==
    /\ svc[s].recs[i].used
    /\ svc[s].recs[i].op.phase = "sdp"
    /\ \E r \in SdpOutcomes(svc[s].recs[i]) :
          Commit(s, [svc[s] EXCEPT !.recs[i] = r], relay, 0)

\* part_000:318-326, 381-387, 401-403: the signaling request returns, the
\* lock is released, and handleAnswer schedules its retry.
SendReturn(s, i) ==
    LET r == svc[s].recs[i]
        L1 == [svc[s] EXCEPT !.recs[i] = [r EXCEPT !.processingSignal = FALSE, !.op = NoOp],
                             !.out = <<IF r.op.fn = "createAndSendOffer"
                                       THEN "offer" ELSE "answer">>]
        L2 == IF r.op.retry THEN AddTimer(L1, "handleAnswer", FALSE, FALSE) ELSE L1
    IN  /\ r.used
        /\ r.op.phase = "send"
        /\ Commit(s, L2, relay, 0)

\* The timeout callback reconnecting as initiator, not with the role its
\* closure captured.
OnConnectTimeout_AsInitiator(L, self, k) ==
    IF L.table # 0 /\ ~Rec(L).connected /\ Rec(L).state # "CONNECTED"
    THEN ConnectToPeer([L EXCEPT !.recs[L.table].state = "FAILED"],
                       self, Other(self), k.isHost, TRUE)
    ELSE L

\* The timeout callback reconnecting whatever the record's state is.
OnConnectTimeout_Always(L, self, k) ==
    IF L.table # 0
    THEN ConnectToPeer([L EXCEPT !.recs[L.table].state = "FAILED"],
                       self, Other(self), k.isHost, k.isInitiator)
    ELSE L

\* part_000:243-251: the callback of the 10 s timer, k holding the
\* isHost and isInitiator its closure captured.
OnConnectTimeout(L, self, k) ==
    IF L.table # 0 /\ ~Rec(L).connected /\ Rec(L).state # "CONNECTED"
    THEN ConnectToPeer([L EXCEPT !.recs[L.table].state = "FAILED"],
                       self, Other(self), k.isHost, k.isInitiator)
    ELSE L

\* part_000:243-251
ConnectTimeout(s, k) ==
    /\ BagIn(k, svc[s].timers)
    /\ k.kind = "timeout"
    /\ Commit(s, OnConnectTimeout(DropTimer(svc[s], k), s, k), relay, 0)

\* part_000:184-186
IceRetry(s, k) ==
    /\ BagIn(k, svc[s].timers)
    /\ k.kind = "ice"
    /\ Commit(s, ConnectToPeer(DropTimer(svc[s], k), s, Other(s), k.isHost, k.isInitiator),
              relay, 0)

\* part_000:285, 350, 403, 416
RetryTimer(s, k) ==
    LET L0 == DropTimer(svc[s], k)
        L1 == CASE k.kind = "handleOffer" -> RunMicrotasks(HandleOffer(L0, s, Other(s)))
                [] k.kind = "handleAnswer" -> HandleAnswer(L0, s, Other(s))
                [] OTHER -> CreateAndSendOffer(L0)
    IN  /\ BagIn(k, svc[s].timers)
        /\ k.kind \in {"handleOffer", "handleAnswer", "createAndSendOffer"}
        /\ Commit(s, L1, relay, 0)

\* part_000:192-208: connectionstatechange to 'connected'.
TransportConnected(s) ==
    /\ Linked(s)
    /\ Rec(svc[s]).connectionState \in {"new", "disconnected"}
    /\ Commit(s, [svc[s] EXCEPT !.recs[svc[s].table] = OnConnected(@)], relay, 0)

\* part_000:254-260, 451-464: the channel the initiator created opens on
\* both sides once the connection is up.
DataChannelOpen(s) ==
    LET L == svc[s]
        P == svc[Other(s)]
    IN  /\ L.table # 0
        /\ Rec(L).connectionState = "connected"
        /\ Rec(L).iceConnectionState # "failed"
        /\ \/ Rec(L).dataChannel = "connecting"
           \/ /\ Rec(L).dataChannel = "none"
              /\ P.table # 0
              /\ Rec(P).dataChannel \in {"connecting", "open"}
        /\ Commit(s, [L EXCEPT !.recs[L.table] = OnChannelOpen(@)], relay, 0)

\* part_000:209-228: connectionstatechange to 'disconnected' or 'failed'.
TransportLost(s, how) ==
    LET L == svc[s]
    IN  /\ faults < MaxFaults
        /\ L.table # 0
        /\ Rec(L).localDescription # "none"
        /\ Rec(L).connectionState \notin {"failed", how}
        /\ how = "disconnected" => Rec(L).connectionState = "connected"
        /\ Commit(s, [L EXCEPT !.recs[L.table] = OnLost(@, how)], relay, 1)

\* part_000:174-189: iceconnectionstatechange to 'failed'.
IceFailed(s) ==
    LET L == svc[s]
        r == Rec(L)
        L1 == [L EXCEPT !.recs[L.table] =
                  [r EXCEPT !.iceConnectionState = "failed", !.state = "FAILED"]]
    IN  /\ faults < MaxFaults
        /\ L.table # 0
        /\ r.localDescription # "none"
        /\ r.remoteDescription # "none"
        /\ r.iceConnectionState # "failed"
        /\ Commit(s, AddTimer(L1, "ice", r.isHost, r.isInitiator), relay, 1)

\* part_000:466-479: the open channel of the record closes.
DataChannelClosed(s) ==
    LET L == svc[s]
    IN  /\ faults < MaxFaults
        /\ L.table # 0
        /\ Rec(L).dataChannel = "open"
        /\ Commit(s, [L EXCEPT !.recs[L.table] =
                         [OnChannelClose(@) EXCEPT !.dataChannel = "closed"]],
                  relay, 1)

\* part_000:466-479 run by the channel of a record that was torn down: the
\* handler looks the record up by peer id.
StaleChannelClosed(s) ==
    LET L == [svc[s] EXCEPT !.staleClose = FALSE]
    IN  /\ svc[s].staleClose
        /\ Commit(s, IF L.table = 0 THEN L
                     ELSE [L EXCEPT !.recs[L.table] = OnChannelClose(@)],
                  relay, 0)

TimerKeys ==
    [kind : {"timeout", "ice", "handleOffer", "handleAnswer", "createAndSendOffer"},
     isHost : BOOLEAN, isInitiator : BOOLEAN]

Next ==
    \/ \E s \in PeerIds : Start(s)
    \/ \E s \in PeerIds, again \in BOOLEAN : Poll(s, again)
    \/ \E s \in PeerIds, i \in 1..MaxRecs : SdpSettle(s, i)
    \/ \E s \in PeerIds, i \in 1..MaxRecs : SendReturn(s, i)
    \/ \E s \in PeerIds, k \in TimerKeys : ConnectTimeout(s, k)
    \/ \E s \in PeerIds, k \in TimerKeys : IceRetry(s, k)
    \/ \E s \in PeerIds, k \in TimerKeys : RetryTimer(s, k)
    \/ \E s \in PeerIds : TransportConnected(s)
    \/ \E s \in PeerIds : DataChannelOpen(s)
    \/ \E s \in PeerIds, how \in {"disconnected", "failed"} : TransportLost(s, how)
    \/ \E s \in PeerIds : IceFailed(s)
    \/ \E s \in PeerIds : DataChannelClosed(s)
    \/ \E s \in PeerIds : StaleChannelClosed(s)

Spec == RTCInit /\ [][Next]_vars

(***************************************************************************)
(* LiveSpec: the same instances with a transport that always succeeds: no  *)
(* failure is injected, every pending step is eventually taken, and the    *)
(* 10 s connect timeout (part_000:251) expires only when the negotiation   *)
(* has nothing left to do: no record waits at an await, nothing the relay  *)
(* holds is undelivered, no 500 ms retry is pending and the transport has  *)
(* no event to report.                                                     *)
(***************************************************************************)
LiveInit ==
    /\ now = StartMs
    /\ rooms = [r \in RoomIds |-> NoRoom]
    /\ nextId = 1
    /\ deposits = {}
    /\ pollLog = [cur |-> NoPoll, prev |-> NoPoll]
    /\ sig = [c \in PeerIds |-> NewSignaling]
    /\ inflight = {}
    /\ dispatched = [c \in PeerIds |-> {}]
    /\ cycles = [c \in PeerIds |-> 0 - 1]
    /\ \E aIsHost \in BOOLEAN :
          svc = [s \in PeerIds |-> NewService(s = "H" \/ aIsHost)]
    /\ relay = EmptyRelay
    /\ faults = MaxFaults
    /\ log = NoLog

Quiet ==
    \A s \in PeerIds :
        /\ relay.box[s] = [offers |-> 0, answers |-> 0]
        /\ \A i \in 1..MaxRecs : svc[s].recs[i].op = NoOp
        /\ \A k \in BagToSet(svc[s].timers) : k.kind = "timeout"
        /\ ~(Linked(s) /\ Rec(svc[s]).connectionState \in {"new", "disconnected"})
        /\ ~ENABLED DataChannelOpen(s)

LiveTimeout(s, k) == Quiet /\ ConnectTimeout(s, k)

LiveNext ==
    \/ \E s \in PeerIds : Start(s)
    \/ \E s \in PeerIds : Poll(s, FALSE)
    \/ \E s \in PeerIds, i \in 1..MaxRecs : SdpSettle(s, i)
    \/ \E s \in PeerIds, i \in 1..MaxRecs : SendReturn(s, i)
    \/ \E s \in PeerIds, k \in TimerKeys : LiveTimeout(s, k)
    \/ \E s \in PeerIds, k \in TimerKeys : RetryTimer(s, k)
    \/ \E s \in PeerIds : TransportConnected(s)
    \/ \E s \in PeerIds : DataChannelOpen(s)

Fairness ==
    \A s \in PeerIds :
        /\ WF_vars(Start(s))
        /\ WF_vars(Poll(s, FALSE))
        /\ WF_vars(\E i \in 1..MaxRecs : SdpSettle(s, i))
        /\ WF_vars(\E i \in 1..MaxRecs : SendReturn(s, i))
        /\ SF_vars(\E k \in TimerKeys : LiveTimeout(s, k))
        /\ WF_vars(\E k \in TimerKeys : RetryTimer(s, k))
        /\ WF_vars(TransportConnected(s))
        /\ WF_vars(DataChannelOpen(s))

LiveSpec == LiveInit /\ [][LiveNext]_vars /\ Fairness

(***************************************************************************)
(* Properties of the negotiation engine.                                   *)
(***************************************************************************)
LiveRecords(s) == {i \in 1..MaxRecs : svc[s].recs[i].used /\ svc[s].recs[i].state \notin Terminal}

Negotiating(s) == {i \in 1..MaxRecs : svc[s].recs[i].used /\ svc[s].recs[i].op # NoOp}

Offerer(r) == r.localDescription = "offer" /\ r.remoteDescription = "answer"

Answerer(r) == r.localDescription = "answer" /\ r.remoteDescription = "offer"

Established ==
    \A s \in PeerIds :
        /\ svc[s].table # 0
        /\ Rec(svc[s]).state = "CONNECTED"
        /\ getConnectedPeerCount(svc[s]) = 1

\* C2: once the initiator's offer was handled by the other side and the
\* answer by the initiator, the initiator's record is in ANSWER_RECEIVED and
\* the other side's in ANSWER_SENT (or, the transport having reported,
\* CONNECTED), and from there both records reach CONNECTED.
C2_RoundTrip ==
    /\ [](\A s \in PeerIds :
            Linked(s) =>
                /\ Offerer(Rec(svc[s])) => Rec(svc[s]).state \in {"ANSWER_RECEIVED", "CONNECTED"}
                /\ Answerer(Rec(svc[s])) => Rec(svc[s]).state \in {"ANSWER_SENT", "CONNECTED"})
    /\ \A s \in PeerIds : Linked(s) ~> Established

\* The round trip is complete and the transport has not reported yet.
C2_Witness ==
    /\ Linked("H")
    /\ Rec(svc["H"]).state = "ANSWER_RECEIVED"
    /\ Rec(svc["A"]).state = "ANSWER_SENT"

Unmoved(s, L) == L.recs = svc[s].recs /\ L.timers = svc[s].timers /\ L.out = <<>>

\* C3 (amended): an offer handed to handleOffer while the record is in
\* ANSWER_RECEIVED or CONNECTED is a no-op: the record keeps its state, no
\* description is applied, no answer is sent and nothing is scheduled.
C3_OfferRejected ==
    \A s \in PeerIds :
        (svc[s].table # 0 /\ Rec(svc[s]).state \in {"ANSWER_RECEIVED", "CONNECTED"})
            => Unmoved(s, HandleOffer(svc[s], s, Other(s)))

\* handleOffer was called on a record in ANSWER_RECEIVED.
C3_Witness ==
    \E i \in 1..Len(log) :
        /\ log[i].fn = "handleOffer"
        /\ log[i].pre = "ANSWER_RECEIVED"
        /\ log[i].out = "rejected"

\* C3 (as stated): an offer handed to handleOffer while the record is in
\* ANSWER_SENT or later (ANSWER_RECEIVED, CONNECTED) is a no-op: the state
\* does not regress, no description is applied again, no answer is sent.
C3_OfferIdempotent ==
    \A s \in PeerIds :
        (svc[s].table # 0 /\ Rec(svc[s]).state \in {"ANSWER_SENT", "ANSWER_RECEIVED", "CONNECTED"})
            => Unmoved(s, HandleOffer(svc[s], s, Other(s)))

\* C4: an answer handed to handleAnswer while the record is in
\* ANSWER_RECEIVED or CONNECTED is a no-op: the state stays, no description
\* is applied and nothing is scheduled.
C4_AnswerIdempotent ==
    \A s \in PeerIds :
        (svc[s].table # 0 /\ Rec(svc[s]).state \in {"ANSWER_RECEIVED", "CONNECTED"})
            => Unmoved(s, HandleAnswer(svc[s], s, Other(s)))

\* handleAnswer was called on a record in ANSWER_RECEIVED.
C4_Witness ==
    \E i \in 1..Len(log) :
        /\ log[i].fn = "handleAnswer"
        /\ log[i].pre = "ANSWER_RECEIVED"
        /\ log[i].out = "rejected"

BothOfferSent ==
    \A s \in PeerIds : svc[s].table # 0 /\ Rec(svc[s]).state = "OFFER_SENT"

NegotiatedOneWay ==
    \E s \in PeerIds :
        /\ svc[s].table # 0
        /\ svc[Other(s)].table # 0
        /\ Rec(svc[s]).state \in {"ANSWER_RECEIVED", "CONNECTED"}
        /\ Rec(svc[Other(s)]).state \in {"ANSWER_SENT", "CONNECTED"}

\* C5: when both instances hold a record in OFFER_SENT for each other
\* (glare), the negotiation completes in at least one direction: one record
\* reaches ANSWER_SENT and the other ANSWER_RECEIVED.
C5_GlareResolves == BothOfferSent ~> NegotiatedOneWay

\* C6: a record whose transport reported ICE 'failed' stays in the table
\* only while the 1 s backoff is pending: when the backoff has expired a
\* fresh record has replaced it.
C6_FailedRecordReplaced ==
    \A s \in PeerIds :
        (svc[s].table # 0 /\ Rec(svc[s]).iceConnectionState = "failed")
            => \E k \in BagToSet(svc[s].timers) : k.kind = "ice"

HostAndParticipant == svc["H"].isHost /\ ~svc["A"].isHost

\* C7: with host H and participant A in one room and a transport that
\* always succeeds, every record H holds for A is an initiator's and every
\* record A holds for H is not, H's record reaches OFFER_SENT, and both
\* sides end up CONNECTED with getConnectedPeerCount() = 1.
C7_HostParticipantConnect ==
    HostAndParticipant =>
        /\ [](svc["H"].table # 0 => Rec(svc["H"]).isInitiator)
        /\ [](svc["A"].table # 0 => ~Rec(svc["A"]).isInitiator)
        /\ <>(svc["H"].table # 0 /\ Rec(svc["H"]).state = "OFFER_SENT")
        /\ <>[]Established

C7_Witness == HostAndParticipant /\ Established

\* C11: for every record, the connected side effect (onConnectionCallback
\* and the peer count report) has fired exactly once while the record is
\* connected, whether the transport's 'connected', the data channel's 'open'
\* or both arrived.
C11_ConnectedOnce ==
    \A s \in PeerIds : \A i \in 1..MaxRecs :
        (svc[s].recs[i].used /\ svc[s].recs[i].connected)
            => svc[s].recs[i].announced = 1

\* A negotiation step of s is suspended at an await with the lock held.
Suspended(s) ==
    \E i \in 1..MaxRecs :
        /\ svc[s].recs[i].used
        /\ svc[s].recs[i].processingSignal
        /\ svc[s].recs[i].op # NoOp

\* C12: while a negotiation step for the peer is suspended with the lock
\* held, no turn of the instance starts another negotiation step for that
\* peer (a step newly waiting on its session description calls), also when
\* the turn is a connect timeout or an ICE backoff that replaces the record.
C12_LockExcludes ==
    [][\A s \in PeerIds :
          Suspended(s) =>
              \A j \in 1..MaxRecs :
                  svc'[s].recs[j].op.phase = "sdp" => svc[s].recs[j].op.phase = "sdp"]_vars

(***************************************************************************)
(* StopSpec: Spec with stop().  A stopped instance polls no more, so       *)
(* nothing its peer does reaches it: the steps the peer takes after the    *)
(* stop are left out.                                                      *)
(***************************************************************************)
\* part_000:548-561: every channel and connection is closed, the table
\* cleared and the signaling client stopped (signaling.ts:214-221: no more
\* polls).  The pending setTimeout callbacks are left as they are.
Stop(s) ==
    LET L0 == IF svc[s].table # 0 THEN Teardown(svc[s]) ELSE svc[s]
    IN  /\ svc[s].status = "started"
        /\ Commit(s, [L0 EXCEPT !.status = "stopped"], relay, 0)

PeerRunning(s) == svc[Other(s)].status # "stopped"

StopNext ==
    \/ \E s \in PeerIds : PeerRunning(s) /\ Start(s)
    \/ \E s \in PeerIds, again \in BOOLEAN : PeerRunning(s) /\ Poll(s, again)
    \/ \E s \in PeerIds, i \in 1..MaxRecs : PeerRunning(s) /\ SdpSettle(s, i)
    \/ \E s \in PeerIds, i \in 1..MaxRecs : PeerRunning(s) /\ SendReturn(s, i)
    \/ \E s \in PeerIds, k \in TimerKeys : PeerRunning(s) /\ ConnectTimeout(s, k)
    \/ \E s \in PeerIds, k \in TimerKeys : PeerRunning(s) /\ IceRetry(s, k)
    \/ \E s \in PeerIds, k \in TimerKeys : PeerRunning(s) /\ RetryTimer(s, k)
    \/ \E s \in PeerIds : PeerRunning(s) /\ TransportConnected(s)
    \/ \E s \in PeerIds : PeerRunning(s) /\ DataChannelOpen(s)
    \/ \E s \in PeerIds, how \in {"disconnected", "failed"} :
          PeerRunning(s) /\ TransportLost(s, how)
    \/ \E s \in PeerIds : PeerRunning(s) /\ IceFailed(s)
    \/ \E s \in PeerIds : PeerRunning(s) /\ DataChannelClosed(s)
    \/ \E s \in PeerIds : PeerRunning(s) /\ StaleChannelClosed(s)
    \/ \E s \in PeerIds : PeerRunning(s) /\ Stop(s)

StopSpec == RTCInit /\ [][StopNext]_vars

\* C13: after stop() the connection table of the instance is empty and
\* stays empty: no callback scheduled before stop() creates a record
\* afterwards.
C13_StoppedStaysEmpty ==
    \A s \in PeerIds :
        svc[s].status = "stopped" =>
            /\ svc[s].table = 0
            /\ \A i \in 1..MaxRecs : ~svc[s].recs[i].used

\* C14: once stop() has returned on a client, no onOffer / onAnswer callback
\* of that client is invoked any more, also not for a poll whose request
\* was under way when stop() was called.
C14_NoDispatchAfterStop ==
    [][\A c \in PeerIds :
          (sig[c].joined /\ ~sig[c].active) => dispatched'[c] = dispatched[c]]_vars

\* C15: the cursor of a client starts at its initial value and every step
\* that changes it sets it to the time stamp of a poll response the client
\* reads in that step: it is never set from the client's own clock.
C15_CursorFromServer ==
    [][\A c \in PeerIds :
          sig'[c].lastPollTimestamp # sig[c].lastPollTimestamp =>
              \E m \in inflight \ inflight' :
                  /\ m.to = c
                  /\ m.resp.success
                  /\ sig'[c].lastPollTimestamp = m.resp.timestamp]_vars

\* C16: the cursor of a client never decreases, whatever joins and poll
\* completions happen and in whatever order the responses arrive.
C16_CursorMonotonic ==
    [][\A c \in PeerIds :
          sig'[c].lastPollTimestamp >= sig[c].lastPollTimestamp]_vars

\* The record a deposit of `payload` by `from` at time t leaves in a mailbox.
Deposited(from, payload, t) == [from |-> from, offer |-> payload, timestamp |-> t]

\* C17: a deposit of either kind for a target that has no mailbox in the
\* room reports success and leaves the room with a mailbox of the target
\* holding the record (sender, payload, server time).
C17_DepositCreatesMailbox ==
    \A r \in RoomIds : \A p \in PeerIds : \A q \in PeerIds \ {p} :
        \A kind \in {"offer", "answer"} :
            ~HasPeer(rooms[r].peers, q) =>
                LET res == IF kind = "offer"
                           THEN OfferOp(rooms, r, p, q, nextId, now)
                           ELSE AnswerOp(rooms, r, p, q, nextId, now)
                    ps == res.rooms[r].peers
                    held == IF kind = "offer" THEN ps[PeerIndex(ps, q)].offers
                            ELSE ps[PeerIndex(ps, q)].answers
                IN  /\ res.resp.success
                    /\ HasPeer(ps, q)
                    /\ Deposited(p, nextId, now) \in Range(held)

\* The records of one kind held in the mailboxes of a room.
Held(room, field) ==
    UNION {Range(IF field = "offers" THEN room.peers[i].offers ELSE room.peers[i].answers) :
           i \in 1..Len(room.peers)}

C19_JoinContract ==
    \A r \in RoomIds : \A p \in PeerIds : \A isHost \in BOOLEAN :
        LET res == JoinOp(rooms, r, p, isHost, now)
            room == res.rooms[r]
            before == Range(rooms[r].peers)
            others == {q.peerId : q \in before} \ {p}
            listed == Range(res.resp.peers)
        IN  /\ res.resp.success
            /\ room.exists
            /\ HasPeer(room.peers, p)
            /\ room.peers[PeerIndex(room.peers, p)].lastSeen = now
            /\ \A q \in before : q.peerId # p => q \in Range(room.peers)
            /\ room.hostPeerId = (IF isHost THEN p ELSE rooms[r].hostPeerId)
            /\ {q.peerId : q \in listed} = others
            /\ Len(res.resp.peers) = Cardinality(others)
            /\ \A q \in listed : q.isHost <=> q.peerId = room.hostPeerId
            /\ Cardinality({q \in listed : q.isHost}) <= 1

\* A room with a designated host and a second mailbox: joins were made, and
\* a join returns a flagged or an unflagged peer.
C19_Witness ==
    \E r \in RoomIds :
        /\ rooms[r].exists
        /\ rooms[r].hostPeerId \in PeerIds
        /\ Len(rooms[r].peers) >= 2

\* The times at which the cleanup interval may fire next.
SweepTimes == {now, now + PEER_TIMEOUT, now + PEER_TIMEOUT + TickMs, now + ROOM_TIMEOUT + TickMs}

\* C20: after a sweep at time t no room holds a mailbox last seen more than
\* PEER_TIMEOUT before t, and no room is left that is empty or whose last
\* activity is more than ROOM_TIMEOUT before t; a mailbox last seen within
\* PEER_TIMEOUT is kept as it is, in its place, and its room keeps its other
\* fields.
C20_SweepContract ==
    \A t \in SweepTimes : \A r \in RoomIds :
        LET before == rooms[r]
            after == SweepOp(rooms, t)[r]
            Fresh(q) == t - q.lastSeen <= PEER_TIMEOUT
        IN  /\ after.exists =>
                /\ before.exists
                /\ \A q \in Range(after.peers) : Fresh(q)
                /\ Len(after.peers) > 0
                /\ t - after.lastActivity <= ROOM_TIMEOUT
            /\ (\E q \in Range(before.peers) : Fresh(q)) =>
                /\ after.exists
                /\ after = [before EXCEPT !.peers = SelectSeq(before.peers, Fresh)]

\* A sweep has evicted the mailbox an offer had created for its target and
\* kept the room.
C20_Witness ==
    \E d \in deposits :
        /\ rooms["R1"].exists
        /\ ~HasPeer(rooms["R1"].peers, d.target)

\* C21: connectToPeer on a table entry in DISCONNECTED or FAILED closes the
\* old record's channel and connection and removes it before the new record
\* is inserted: afterwards the table holds a fresh record, no other record
\* is left, and a channel the old record had is closed.  In no state is
\* there a record that is not the table's entry.
C21_TeardownBeforeReplace ==
    \A s \in PeerIds :
        /\ \A i \in 1..MaxRecs : svc[s].recs[i].used => i = svc[s].table
        /\ (svc[s].table # 0 /\ Rec(svc[s]).state \in Terminal) =>
              \A isHost \in BOOLEAN, isInitiator \in BOOLEAN :
                  LET old == Rec(svc[s])
                      L == ConnectToPeer(svc[s], s, Other(s), isHost, isInitiator)
                  IN  /\ L.table # 0
                      /\ \A i \in 1..MaxRecs : L.recs[i].used => i = L.table
                      /\ Rec(L).connectionState = "new"
                      /\ Rec(L).localDescription = "none"
                      /\ Rec(L).remoteDescription = "none"
                      /\ ~Rec(L).connected
                      /\ Rec(L).isInitiator = isInitiator
                      /\ old.dataChannel \in {"connecting", "open"} => L.staleClose

\* A record was torn down, its channel closed, and the record that replaced
\* it has not negotiated yet.
C21_Witness ==
    \E s \in PeerIds :
        /\ svc[s].staleClose
        /\ svc[s].table # 0
        /\ Rec(svc[s]).state \in {"NEW", "CONNECTING"}
        /\ Rec(svc[s]).localDescription = "none"

(***************************************************************************)
(* FailSpec: LiveSpec with transport failures.  Up to MaxFaults failures   *)
(* are reported by the transport (ICE 'failed', connection state           *)
(* 'disconnected' or 'failed', data channel close); every other pending    *)
(* step is eventually taken and neither instance is stopped.               *)
(***************************************************************************)
FailNext ==
    \/ \E s \in PeerIds : Start(s)
    \/ \E s \in PeerIds : Poll(s, FALSE)
    \/ \E s \in PeerIds, i \in 1..MaxRecs : SdpSettle(s, i)
    \/ \E s \in PeerIds, i \in 1..MaxRecs : SendReturn(s, i)
    \/ \E s \in PeerIds, k \in TimerKeys : LiveTimeout(s, k)
    \/ \E s \in PeerIds, k \in TimerKeys : IceRetry(s, k)
    \/ \E s \in PeerIds, k \in TimerKeys : RetryTimer(s, k)
    \/ \E s \in PeerIds : TransportConnected(s)
    \/ \E s \in PeerIds : DataChannelOpen(s)
    \/ \E s \in PeerIds, how \in {"disconnected", "failed"} : TransportLost(s, how)
    \/ \E s \in PeerIds : IceFailed(s)
    \/ \E s \in PeerIds : DataChannelClosed(s)
    \/ \E s \in PeerIds : StaleChannelClosed(s)

FailFairness ==
    /\ Fairness
    /\ \A s \in PeerIds :
          /\ WF_vars(\E k \in TimerKeys : IceRetry(s, k))
          /\ WF_vars(StaleChannelClosed(s))

FailSpec == RTCInit /\ [][FailNext]_vars /\ FailFairness

\* The transport of the table's record of s has failed: ICE 'failed',
\* connection state 'failed', or the data channel closed.
Broken(s) ==
    /\ svc[s].table # 0
    /\ \/ Rec(svc[s]).iceConnectionState = "failed"
       \/ Rec(svc[s]).connectionState = "failed"
       \/ Rec(svc[s]).dataChannel = "closed"

\* C22: whenever the record of a peer became terminal because its transport
\* failed (ICE 'failed', connection state 'failed', data channel close), a
\* fresh record for that peer eventually replaces it, on a host and on a
\* participant alike, no instance being stopped.
C22_Reconnects ==
    \A s \in PeerIds : (Broken(s) /\ Rec(svc[s]).state \in Terminal) ~> (svc[s].table # 0 /\ ~Broken(s))

(***************************************************************************)
(* InitSpec: LiveSpec's steps with a start() that fails: the join request  *)
(* fails, or the browser of an instance has no transport.                  *)
(***************************************************************************)
\* The instances of LiveInit, each in a browser with or without transport.
InitInit ==
    /\ now = StartMs
    /\ rooms = [r \in RoomIds |-> NoRoom]
    /\ nextId = 1
    /\ deposits = {}
    /\ pollLog = [cur |-> NoPoll, prev |-> NoPoll]
    /\ sig = [c \in PeerIds |-> NewSignaling]
    /\ inflight = {}
    /\ dispatched = [c \in PeerIds |-> {}]
    /\ cycles = [c \in PeerIds |-> 0 - 1]
    /\ \E aIsHost \in BOOLEAN, without \in SUBSET PeerIds :
          svc = [s \in PeerIds |->
                    [NewService(s = "H" \/ aIsHost) EXCEPT !.transport = s \notin without]]
    /\ relay = EmptyRelay
    /\ faults = MaxFaults
    /\ log = NoLog

\* part_000:84-100 with signaling.ts:47-82: the join request fails.  join()
\* reports the error and returns no peers; active is set, the poll interval
\* is not started (signaling.ts:49, 74-75).
StartJoinFails(s) ==
    LET join == CaughtOutcome(TRUE)
        start == CaughtOutcome(join.settled = "rejected")
        L1 == [svc[s] EXCEPT !.status = "unjoined", !.initFailed = TRUE,
                             !.startOutcome = start.settled,
                             !.errorReported = join.reported \/ start.reported]
    IN  /\ svc[s].status = "idle"
        /\ Commit(s, L1, relay, 0)

InitNext ==
    \/ \E s \in PeerIds : Start(s)
    \/ \E s \in PeerIds : StartJoinFails(s)
    \/ \E s \in PeerIds : Poll(s, FALSE)
    \/ \E s \in PeerIds, i \in 1..MaxRecs : SdpSettle(s, i)
    \/ \E s \in PeerIds, i \in 1..MaxRecs : SendReturn(s, i)
    \/ \E s \in PeerIds, k \in TimerKeys : LiveTimeout(s, k)
    \/ \E s \in PeerIds, k \in TimerKeys : RetryTimer(s, k)
    \/ \E s \in PeerIds : TransportConnected(s)
    \/ \E s \in PeerIds : DataChannelOpen(s)

InitSpec == InitInit /\ [][InitNext]_vars

\* C23: when the join request or the creation of the transport session
\* fails during start(), the promise start() returned is rejected: the
\* failure reaches the caller and not the error callback only.
C23_InitFailurePropagates ==
    \A s \in PeerIds : svc[s].initFailed => svc[s].startOutcome = "rejected"

(***************************************************************************)
(* SigFailSpec: the clients of SigSpec, never stopped, with requests that  *)
(* fail: up to MaxFaults sendOffer, sendAnswer or poll requests get no     *)
(* response or one that is not ok.                                         *)
(***************************************************************************)
\* signaling.ts:85-140: what sendOffer / sendAnswer hands to its caller;
\* ok: the request got a response with an ok status.
SendOutcome(ok, resp) ==
    [returned |-> ok /\ resp.success, thrown |-> FALSE, reported |-> ~ok]

\* As PollSettled, with a failed poll forgetting the cursor.
PollSettled_FailureResetsCursor(S, resp, ok) ==
    IF ok /\ resp.success THEN [S EXCEPT !.lastPollTimestamp = resp.timestamp]
    ELSE [S EXCEPT !.lastPollTimestamp = 0]

\* signaling.ts:160-199: the client's fields once poll() has read the
\* response or caught the failure.
PollSettled(S, resp, ok) ==
    IF ok /\ resp.success THEN [S EXCEPT !.lastPollTimestamp = resp.timestamp] ELSE S

\* signaling.ts:85-140 with a request that fails.
SigSendFails(c, kind, target) ==
    LET o == SendOutcome(FALSE, Failure(kind, c, 500))
    IN  /\ sig[c].active
        /\ faults < MaxFaults
        /\ faults' = faults + 1
        /\ log' = <<[fn |-> "send", pre |-> "failed",
                     out |-> IF o.thrown THEN "thrown"
                             ELSE IF o.returned THEN "true" ELSE "false"]>>
        /\ UNCHANGED <<storeVars, sigVars, svc, relay>>

\* signaling.ts:143-162: the interval fires and the poll request fails.
SigPollFails(c) ==
    /\ sig[c].polling
    /\ sig[c].active
    /\ Cardinality({m \in inflight : m.to = c}) < MaxInflight
    /\ faults < MaxFaults
    /\ faults' = faults + 1
    /\ inflight' = inflight \cup {[to |-> c, resp |-> Failure("poll", c, 500)]}
    /\ UNCHANGED <<storeVars, sig, dispatched, cycles, svc, relay, log>>

\* signaling.ts:160-162, 196-199: the failure is thrown and caught.
SigPollFailed(m) ==
    /\ m \in inflight
    /\ ~m.resp.success
    /\ inflight' = inflight \ {m}
    /\ sig' = [sig EXCEPT ![m.to] = PollSettled(@, m.resp, FALSE)]
    /\ log' = <<[fn |-> "poll", pre |-> "failed", out |-> m.to]>>
    /\ UNCHANGED <<storeVars, dispatched, cycles, svc, relay, faults>>

SigFailNext ==
    \/ Tick /\ UNCHANGED <<sigVars, rtcVars>>
    \/ (\E c \in PeerIds : SigJoin(c)) /\ UNCHANGED rtcVars
    \/ /\ \E c \in PeerIds, k \in {"offer", "answer"} :
             \E q \in PeerIds \ {c} : SigSend(c, k, q)
       /\ UNCHANGED rtcVars
    \/ \E c \in PeerIds, k \in {"offer", "answer"} :
          \E q \in PeerIds \ {c} : SigSendFails(c, k, q)
    \/ (\E c \in PeerIds : SigPoll(c)) /\ UNCHANGED rtcVars
    \/ \E c \in PeerIds : SigPollFails(c)
    \/ (\E m \in inflight : m.resp.success /\ SigPollDone(m)) /\ UNCHANGED rtcVars
    \/ \E m \in inflight : SigPollFailed(m)

SigFailSpec == Init /\ [][SigFailNext]_vars

\* C24: a failed sendOffer / sendAnswer returns false and throws nothing,
\* and the step that handles a failed poll leaves the client's cursor as it
\* was, the poll loop running and the client active, and calls no callback:
\* the next cycle polls with the same cursor.
C24_TransientFailure ==
    /\ [](\A i \in 1..Len(log) :
            (log[i].fn = "send" /\ log[i].pre = "failed") => log[i].out = "false")
    /\ [][\A c \in PeerIds :
            (\E m \in inflight \ inflight' : m.to = c /\ ~m.resp.success) =>
                /\ sig'[c] = sig[c]
                /\ sig'[c].polling
                /\ sig'[c].active
                /\ dispatched'[c] = dispatched[c]]_vars

\* A poll of a client failed and its next poll, sent with the cursor the
\* client had before, is under way.
C24_Witness ==
    \E c \in PeerIds : \E m \in inflight :
        /\ log = <<[fn |-> "poll", pre |-> "failed", out |-> c]>>
        /\ m.to = c
        /\ m.resp.success
        /\ m.resp.since = sig[c].lastPollTimestamp
        /\ m.resp.since > 0

\* C25: a record's processingSignal is set only while a createAndSendOffer,
\* handleOffer or handleAnswer step is suspended on it: when the step's
\* description calls settle, the step either goes on to its signaling
\* request with the lock held or, the call refused, ends with the lock
\* released, and once no step is in flight on a record its lock is free,
\* also after a rejection by the state check.
C25_LockReleased ==
    \A s \in PeerIds : \A i \in 1..MaxRecs :
        LET r == svc[s].recs[i]
        IN  /\ r.processingSignal <=> r.op # NoOp
            /\ r.processingSignal => r.used
            /\ r.op.phase = "sdp" =>
                  \A o \in SdpOutcomes(r) :
                      \/ o.op = NoOp /\ ~o.processingSignal
                      \/ o.op.phase = "send" /\ o.processingSignal

\* handleOffer set OFFER_RECEIVED, the transport refused the offer, and the
\* record is left with the lock free.
C25_Witness ==
    \E s \in PeerIds :
        /\ svc[s].table # 0
        /\ Rec(svc[s]).state = "OFFER_RECEIVED"
        /\ Rec(svc[s]).op = NoOp
        /\ ~Rec(svc[s]).processingSignal

\* part_000:294-300
InvalidForOffer == {"OFFER_SENT", "OFFER_RECEIVED", "ANSWER_SENT", "ANSWER_RECEIVED", "CONNECTED"}

\* C26: createAndSendOffer does nothing without a record; called on a record
\* in OFFER_SENT, OFFER_RECEIVED, ANSWER_SENT, ANSWER_RECEIVED or CONNECTED,
\* or on one whose lock is held, it leaves the record as it is and sends
\* nothing; otherwise it takes the lock, sets CONNECTING and, its offer
\* created and applied, sets OFFER_SENT and hands the offer to the
\* signaling client.
C26_OfferPreconditions ==
    \A s \in PeerIds :
        LET L == CreateAndSendOffer(svc[s])
        IN  IF svc[s].table = 0 THEN L = svc[s]
            ELSE LET r == Rec(svc[s])
                 IN  /\ L.table = svc[s].table
                     /\ L.out = <<>>
                     /\ (r.state \in InvalidForOffer \/ r.processingSignal) =>
                           L.recs = svc[s].recs
                     /\ (r.state \notin InvalidForOffer /\ ~r.processingSignal) =>
                           /\ Rec(L) = [r EXCEPT !.state = "CONNECTING",
                                                 !.processingSignal = TRUE,
                                                 !.op = [fn |-> "createAndSendOffer",
                                                         phase |-> "sdp", retry |-> FALSE]]
                           /\ \A o \in SdpOutcomes(Rec(L)) :
                                 /\ o.state = "OFFER_SENT"
                                 /\ o.localDescription = "offer"
                                 /\ o.op.fn = "createAndSendOffer"
                                 /\ o.op.phase = "send"

\* An offer was created and applied and is on its way to the store; the
\* record is in OFFER_SENT.
C26_Witness ==
    \E s \in PeerIds :
        /\ svc[s].table # 0
        /\ Rec(svc[s]).state = "OFFER_SENT"
        /\ Rec(svc[s]).op.fn = "createAndSendOffer"
        /\ Rec(svc[s]).op.phase = "send"
        /\ svc[Other(s)].table # 0

\* part_000:360
InvalidForIncomingOffer == {"OFFER_SENT", "ANSWER_RECEIVED", "CONNECTED"}

\* C27: handleOffer on a record in OFFER_SENT, ANSWER_RECEIVED or CONNECTED
\* changes nothing on the record and sends nothing; on a record in any
\* other state whose lock is free it takes the lock, sets OFFER_RECEIVED
\* and, however the description calls settle, the remote offer and a local
\* answer are applied, the record is in ANSWER_SENT and one answer is on
\* its way to the sender.
C27_HandleOfferContract ==
    \A s \in PeerIds :
        svc[s].table # 0 =>
            LET r == Rec(svc[s])
                L == HandleOffer(svc[s], s, Other(s))
            IN  /\ r.state \in InvalidForIncomingOffer =>
                      L.recs = svc[s].recs /\ L.out = <<>>
                /\ (r.state \notin InvalidForIncomingOffer /\ ~r.processingSignal) =>
                      /\ Rec(L).state = "OFFER_RECEIVED"
                      /\ Rec(L).op = [fn |-> "handleOffer", phase |-> "sdp", retry |-> FALSE]
                      /\ \A o \in SdpOutcomes(Rec(L)) :
                            /\ o.state = "ANSWER_SENT"
                            /\ o.remoteDescription = "offer"
                            /\ o.localDescription = "answer"
                            /\ o.op.phase = "send"

\* part_000:426
InvalidForAnswer == {"ANSWER_RECEIVED", "CONNECTED"}

\* C28: handleAnswer on a record in ANSWER_RECEIVED or CONNECTED changes
\* nothing on the record; on a record in any other state whose lock is free
\* it takes the lock and, however the description call settles, the remote
\* answer is applied and the record is in ANSWER_RECEIVED with the lock
\* released.
C28_HandleAnswerContract ==
    \A s \in PeerIds :
        svc[s].table # 0 =>
            LET r == Rec(svc[s])
                L == HandleAnswer(svc[s], s, Other(s))
            IN  /\ r.state \in InvalidForAnswer =>
                      L.recs = svc[s].recs /\ L.out = <<>>
                /\ (r.state \notin InvalidForAnswer /\ ~r.processingSignal) =>
                      /\ Rec(L).state = r.state
                      /\ Rec(L).op = [fn |-> "handleAnswer", phase |-> "sdp", retry |-> FALSE]
                      /\ \A o \in SdpOutcomes(Rec(L)) :
                            /\ o.state = "ANSWER_RECEIVED"
                            /\ o.remoteDescription = "answer"
                            /\ ~o.processingSignal

(***************************************************************************)
(* StraySpec: LiveSpec in a room with further peers.  A poll returns the   *)
(* answers of every mailbox of the room (route.ts:174-176), so an answer   *)
(* the peer sent to a third peer reaches an instance that made no offer    *)
(* and may hold no record for the sender; up to MaxFaults such answers     *)
(* are deposited.  The browser of an instance may lack the transport.      *)
(***************************************************************************)
\* route.ts:147-165: the peer of s, joined, answers a third peer.
StrayAnswer(s) ==
    /\ faults < MaxFaults
    /\ relay.mailbox[Other(s)]
    /\ relay.box[s].answers < MaxBox
    /\ relay' = [relay EXCEPT !.box[s].answers = @ + 1]
    /\ faults' = faults + 1
    /\ UNCHANGED <<storeVars, sigVars, svc, log>>

StrayNext ==
    \/ \E s \in PeerIds : Start(s)
    \/ \E s \in PeerIds : Poll(s, FALSE)
    \/ \E s \in PeerIds, i \in 1..MaxRecs : SdpSettle(s, i)
    \/ \E s \in PeerIds, i \in 1..MaxRecs : SendReturn(s, i)
    \/ \E s \in PeerIds, k \in TimerKeys : LiveTimeout(s, k)
    \/ \E s \in PeerIds, k \in TimerKeys : RetryTimer(s, k)
    \/ \E s \in PeerIds : TransportConnected(s)
    \/ \E s \in PeerIds : DataChannelOpen(s)
    \/ \E s \in PeerIds : StrayAnswer(s)

\* The instances of InitInit; no stray answer was deposited yet.
StrayInit ==
    /\ now = StartMs
    /\ rooms = [r \in RoomIds |-> NoRoom]
    /\ nextId = 1
    /\ deposits = {}
    /\ pollLog = [cur |-> NoPoll, prev |-> NoPoll]
    /\ sig = [c \in PeerIds |-> NewSignaling]
    /\ inflight = {}
    /\ dispatched = [c \in PeerIds |-> {}]
    /\ cycles = [c \in PeerIds |-> 0 - 1]
    /\ \E aIsHost \in BOOLEAN, without \in SUBSET PeerIds :
          svc = [s \in PeerIds |->
                    [NewService(s = "H" \/ aIsHost) EXCEPT !.transport = s \notin without]]
    /\ relay = EmptyRelay
    /\ faults = 0
    /\ log = NoLog

StraySpec == StrayInit /\ [][StrayNext]_vars /\ Fairness

\* An answer of s waits to be handled again: its 500 ms timer is pending,
\* or the connectToPeer its handleAnswer awaits has not returned.
AnswerPending(s) ==
    \/ \E k \in BagToSet(svc[s].timers) : k.kind = "handleAnswer"
    \/ \E i \in 1..MaxRecs : svc[s].recs[i].op.retry

\* The step just taken made a handleAnswer call that the state guard
\* turned down or that went on to apply the answer.
AnswerSettled ==
    \E i \in 1..Len(log) :
        /\ log[i].fn = "handleAnswer"
        /\ log[i].out \in {"ignored", "rejected", "started"}

\* C29: handleAnswer for a peer without a record creates an initiator's
\* record for it (the browser having the transport) and has the answer
\* handled again after the retry delay, and an answer waiting for its retry
\* is eventually applied or turned down by a state guard: it is not
\* rescheduled for ever.
C29_DeferredAnswer ==
    /\ [](\A s \in PeerIds :
            (svc[s].table = 0 /\ svc[s].transport) =>
                LET L == HandleAnswer(svc[s], s, Other(s))
                IN  /\ L.table # 0
                    /\ Rec(L).isInitiator
                    /\ Rec(L).peerId = Other(s)
                    /\ \/ Rec(L).op.retry
                       \/ \E k \in BagToSet(L.timers) : k.kind = "handleAnswer")
    /\ \A s \in PeerIds : AnswerPending(s) ~> (~AnswerPending(s) /\ AnswerSettled)

\* handleAnswer found no record and put the answer off.
C29_Witness ==
    \E i \in 1..Len(log) :
        /\ log[i].fn = "handleAnswer"
        /\ log[i].pre = "none"
        /\ log[i].out = "deferred"

RetryKinds == {"handleOffer", "handleAnswer", "createAndSendOffer"}

\* The call a 500 ms retry timer of that kind makes (part_000:285, 350, 416).
RetriedCall(L, s, kind) ==
    CASE kind = "handleOffer" -> RunMicrotasks(HandleOffer(L, s, Other(s)))
      [] kind = "handleAnswer" -> HandleAnswer(L, s, Other(s))
      [] OTHER -> CreateAndSendOffer(L)

RetryKey(kind) == [kind |-> kind, isHost |-> FALSE, isInitiator |-> FALSE]

RetryPending(s) == \E k \in BagToSet(svc[s].timers) : k.kind \in RetryKinds

\* C30: a handleOffer, handleAnswer or createAndSendOffer call that finds
\* the record's lock held leaves the records as they are, sends nothing and
\* has the same call run again after 500 ms; a retry that finds the lock
\* still held leaves the instance as it was before it fired, so that any
\* number of retries during the holder's step amounts to one call after it;
\* and a pending retry is eventually over: the call ran with the lock free
\* or was turned down.
C30_LockedRetry ==
    /\ [](\A s \in PeerIds : \A kind \in RetryKinds :
            (svc[s].table # 0 /\ Rec(svc[s]).processingSignal
                /\ Rec(svc[s]).state # "CONNECTED") =>
                LET L == RetriedCall(svc[s], s, kind)
                    again == RetriedCall(DropTimer(L, RetryKey(kind)), s, kind)
                IN  /\ L.recs = svc[s].recs
                    /\ L.table = svc[s].table
                    /\ L.out = <<>>
                    /\ BagIn(RetryKey(kind), L.timers)
                    /\ again.recs = L.recs
                    /\ again.timers = L.timers
                    /\ again.out = <<>>)
    /\ \A s \in PeerIds : RetryPending(s) ~> ~RetryPending(s)

\* A call found the lock held: its retry is pending while the holder's step
\* is suspended.
C30_Witness ==
    \E s \in PeerIds :
        /\ Suspended(s)
        /\ \E k \in BagToSet(svc[s].timers) : k.kind \in {"handleOffer", "handleAnswer"}

\* C31: when the 10 s connect timeout of a record expires and the table's
\* record for the peer has connected = false and a state other than
\* CONNECTED, the record is torn down and the connection procedure started
\* again with the timer's role (a fresh record, its own timeout armed, an
\* initiator's offer under way); when the record is connected the timeout
\* changes nothing.
C31_ConnectTimeout ==
    \A s \in PeerIds : \A k \in BagToSet(svc[s].timers) :
        (k.kind = "timeout" /\ svc[s].table # 0) =>
            LET r == Rec(svc[s])
                L0 == DropTimer(svc[s], k)
                L == OnConnectTimeout(L0, s, k)
            IN  /\ (~r.connected /\ r.state # "CONNECTED") =>
                      /\ L.table # 0
                      /\ \A i \in 1..MaxRecs : L.recs[i].used => i = L.table
                      /\ Rec(L).connectionState = "new"
                      /\ Rec(L).localDescription = "none"
                      /\ Rec(L).remoteDescription = "none"
                      /\ ~Rec(L).connected
                      /\ Rec(L).state = IF k.isInitiator THEN "CONNECTING" ELSE "NEW"
                      /\ Rec(L).processingSignal = k.isInitiator
                      /\ \E t \in BagToSet(L.timers) : t.kind = "timeout"
                      /\ r.dataChannel \in {"connecting", "open"} => L.staleClose
                /\ r.connected => L = L0

\* No transport failure has occurred, the host's offer reached the store,
\* and the host's record is new and creating its offer again: the connect
\* timeout replaced the record.
C31_Witness ==
    \E s \in PeerIds :
        /\ faults = 0
        /\ ~svc[s].staleClose
        /\ svc[s].table # 0
        /\ Rec(svc[s]).state = "CONNECTING"
        /\ relay.box[Other(s)].offers > 0

\* C32: an event that belongs to a record torn down and replaced leaves the
\* replacement alone: when the close event of a channel that teardown
\* closed is delivered, the table and every record stay as they are.
C32_StaleEventsInert ==
    [][\A s \in PeerIds :
          (svc[s].staleClose /\ ~svc'[s].staleClose) =>
              /\ svc'[s].table = svc[s].table
              /\ svc'[s].recs = svc[s].recs]_vars

\* C33: the record a connect timeout or an ICE backoff creates in place of
\* the table's record has that record's isHost and isInitiator.
C33_ReconnectKeepsRole ==
    \A s \in PeerIds : \A k \in BagToSet(svc[s].timers) :
        (svc[s].table # 0 /\ k.kind \in {"timeout", "ice"}) =>
            LET r == Rec(svc[s])
                L0 == DropTimer(svc[s], k)
                L == IF k.kind = "timeout" THEN OnConnectTimeout(L0, s, k)
                     ELSE ConnectToPeer(L0, s, Other(s), k.isHost, k.isInitiator)
                replaced == IF k.kind = "timeout"
                            THEN ~r.connected /\ r.state # "CONNECTED"
                            ELSE r.state \in Terminal
            IN  replaced =>
                    /\ L.table # 0
                    /\ Rec(L).isHost = r.isHost
                    /\ Rec(L).isInitiator = r.isInitiator

\* A participant's record that never negotiated, while an answer the
\* participant sent before is still in the store: the record that answered
\* was replaced, and the replacement is not an initiator's either.
C33_Witness ==
    \E s \in PeerIds :
        /\ ~svc[s].isHost
        /\ svc[s].table # 0
        /\ ~Rec(svc[s]).isInitiator
        /\ Rec(svc[s]).state = "NEW"
        /\ Rec(svc[s]).remoteDescription = "none"
        /\ relay.box[Other(s)].answers > 0

\* C34: connectToPeer, and handlePeerJoin through it, leaves the table, the
\* records, the timers and the requests sent as they are when the peer id
\* is the local id or the table holds a record for the peer that is not
\* DISCONNECTED / FAILED; a record is created only when the peer has no
\* entry or a DISCONNECTED / FAILED one.
C34_LivePeerIgnored ==
    \A s \in PeerIds : \A peerId \in PeerIds : \A isHost \in BOOLEAN :
        LET L0 == svc[s]
            live == L0.table # 0 /\ Rec(L0).state \notin Terminal
            Same(L) == /\ L.table = L0.table
                       /\ L.recs = L0.recs
                       /\ L.timers = L0.timers
                       /\ L.out = L0.out
            J == HandlePeerJoin(L0, s, peerId, isHost)
        IN  /\ \A isInitiator \in BOOLEAN :
                  LET L == ConnectToPeer(L0, s, peerId, isHost, isInitiator)
                  IN  /\ (peerId = s \/ live) => Same(L)
                      /\ L.recs # L0.recs =>
                            /\ peerId # s
                            /\ L0.table = 0 \/ Rec(L0).state \in Terminal
            /\ (peerId = s \/ live) => Same(J)
            /\ J.recs # L0.recs => L0.isHost

\* A started host holds a record in negotiation for a peer whose mailbox was
\* refreshed since the host's last poll: the next poll notifies the host of
\* that peer once more.
C34_Witness ==
    \E s \in PeerIds :
        /\ svc[s].isHost
        /\ svc[s].status = "started"
        /\ svc[s].table # 0
        /\ Rec(svc[s]).state \in {"OFFER_SENT", "ANSWER_RECEIVED", "CONNECTED"}
        /\ relay.mailbox[Other(s)]
        /\ relay.touched[s]

\* The instance holds an initiator's record.
HoldsInitiator(L) == \E i \in 1..MaxRecs : L.recs[i].used /\ L.recs[i].isInitiator

\* C35: a host that learns of a peer, from the join response or from a
\* peer-join notification, holds an initiator's record for it afterwards and,
\* the record being new, has begun createAndSendOffer on it; a participant
\* learning of a peer changes nothing.  A participant comes to hold an
\* initiator's record only by handleAnswer finding no record for the sender,
\* and offers are deposited only by instances holding an initiator's record.
C35_InitiatorConvention ==
    /\ [](\A s \in PeerIds : \A peerIsHost \in BOOLEAN :
            LET L0 == svc[s]
                absent == L0.table = 0 \/ Rec(L0).state \in Terminal
                J == HandlePeerJoin(L0, s, Other(s), peerIsHost)
                O == RunMicrotasks(HandleOffer(L0, s, Other(s)))
                A == HandleAnswer(L0, s, Other(s))
            IN  /\ L0.isHost =>
                      /\ J.table # 0
                      /\ Rec(J).isInitiator
                      /\ absent => /\ Rec(J).state = "CONNECTING"
                                   /\ Rec(J).op.fn = "createAndSendOffer"
                /\ ~L0.isHost =>
                      /\ J = L0
                      /\ HoldsInitiator(O) => HoldsInitiator(L0)
                      /\ (HoldsInitiator(A) /\ ~HoldsInitiator(L0)) => L0.table = 0
                      /\ L0.table = 0 => /\ HoldsInitiator(A)
                                         /\ Rec(A).op.fn = "createAndSendOffer")
    /\ [][\A s \in PeerIds :
            /\ (svc[s].status = "idle" /\ svc'[s].status = "started") =>
                  IF svc[s].isHost
                  THEN relay.mailbox[Other(s)] =>
                          /\ svc'[s].table # 0
                          /\ Rec(svc'[s]).isInitiator
                          /\ Rec(svc'[s]).op.fn = "createAndSendOffer"
                  ELSE /\ svc'[s].table = 0
                       /\ relay'.box = relay.box
            /\ (~svc[s].isHost /\ HoldsInitiator(svc'[s]) /\ ~HoldsInitiator(svc[s])) =>
                  \E i \in 1..Len(log') : /\ log'[i].fn = "handleAnswer"
                                          /\ log'[i].out = "deferred"
            /\ relay'.box[Other(s)].offers > relay.box[Other(s)].offers =>
                  HoldsInitiator(svc[s])]_vars

\* The host learned of the participant, created an initiator's record and
\* its offer is in the store, while the participant, started, holds no record.
C35_Witness ==
    \E s \in PeerIds :
        /\ svc[s].isHost
        /\ svc[s].table # 0
        /\ Rec(svc[s]).isInitiator
        /\ Rec(svc[s]).state = "OFFER_SENT"
        /\ relay.box[Other(s)].offers > 0
        /\ ~svc[Other(s)].isHost
        /\ svc[Other(s)].status = "started"
        /\ svc[Other(s)].table = 0

\* C36: a record in DISCONNECTED or FAILED is not taken back into the
\* negotiation: a handleOffer or handleAnswer call that finds the record in
\* one of these states does not go on to apply the offer or answer, and a
\* createAndSendOffer retry that finds it so leaves its state as it is.
C36_TerminalStaysTerminal ==
    /\ [](\A s \in PeerIds : \A k \in BagToSet(svc[s].timers) :
            (k.kind = "createAndSendOffer" /\ svc[s].table # 0
                /\ Rec(svc[s]).state \in Terminal) =>
                Rec(CreateAndSendOffer(DropTimer(svc[s], k))).state \in Terminal)
    /\ [][\A i \in 1..Len(log') :
            (log'[i].fn \in {"handleOffer", "handleAnswer"} /\ log'[i].pre \in Terminal)
                => log'[i].out # "started"]_vars

\* The items handed to the callback `cb`, in the order of the calls.
ItemsOf(calls, cb) ==
    LET IsCb(c) == c.cb = cb
        sel == SelectSeq(calls, IsCb)
    IN  [i \in 1..Len(sel) |-> sel[i].item]

\* C37: a poll that reads a successful response first sets the cursor to the
\* response's time stamp and then calls the new-peer, the offer and the
\* answer callback once for every item of the response and for nothing
\* else, the items of each kind in the order of the response; the step that
\* reads the response leaves the client with that cursor and the response's
\* records among those dispatched.
C37_DispatchInOrder ==
    /\ [](\A m \in inflight :
            m.resp.success =>
                LET calls == PollCalls(m.resp)
                IN  /\ calls[1] = [cb |-> "cursor", item |-> m.resp.timestamp]
                    /\ Len(calls) = 1 + Len(m.resp.peers) + Len(m.resp.offers)
                                      + Len(m.resp.answers)
                    /\ ItemsOf(calls, "cursor") = <<m.resp.timestamp>>
                    /\ ItemsOf(calls, "peerJoin") = m.resp.peers
                    /\ ItemsOf(calls, "offer") = m.resp.offers
                    /\ ItemsOf(calls, "answer") = m.resp.answers)
    /\ [][\A m \in inflight :
            (m \notin inflight' /\ m.resp.success) =>
                /\ sig'[m.to].lastPollTimestamp = m.resp.timestamp
                /\ dispatched'[m.to] =
                      dispatched[m.to] \cup {r.id : r \in RecordsOf(m.resp)}]_vars

\* A response on its way that names a new peer and carries two offers.
C37_Witness ==
    \E m \in inflight :
        /\ m.resp.success
        /\ Len(m.resp.peers) > 0
        /\ Len(m.resp.offers) = 2
        /\ m.resp.offers[1] # m.resp.offers[2]

\* C38: a record with connected = true is in CONNECTED, so that
\* getConnectedPeerCount counts records in CONNECTED only: none that an ICE
\* failure marked FAILED or a close marked DISCONNECTED.
C38_ConnectedIsConnected ==
    \A s \in PeerIds :
        /\ \A i \in 1..MaxRecs :
              (svc[s].recs[i].used /\ svc[s].recs[i].connected)
                  => svc[s].recs[i].state = "CONNECTED"
        /\ getConnectedPeerCount(svc[s]) =
              Cardinality({i \in 1..MaxRecs :
                              i = svc[s].table /\ svc[s].recs[i].state = "CONNECTED"})

\* A further peer of the room, the target of a deposit (route.ts:120-165:
\* body.target is any id the sender names).
ThirdPeer == "T"

\* C39: a record that sender S deposits for target T, a third peer of the
\* room, is returned to T's poll and not to the poll of another peer U, so
\* that U's client makes no offer or answer callback call for it.
C39_AddressedDelivery ==
    \A S \in PeerIds : \A kind \in {"offer", "answer"} :
        LET U == Other(S)
            T == ThirdPeer
            joined == JoinOp(rooms, "R1", T, FALSE, now).rooms
            dep == IF kind = "offer"
                   THEN OfferOp(joined, "R1", S, T, nextId, now)
                   ELSE AnswerOp(joined, "R1", S, T, nextId, now)
            rec == [from |-> S, offer |-> nextId, timestamp |-> now]
            Got(peerId) ==
                ItemsOf(PollCalls(PollOp(dep.rooms, "R1", peerId, 0, now).resp), kind)
            Has(q) == \E i \in 1..Len(q) : q[i] = rec
        IN  /\ dep.resp.success
            /\ Has(Got(T))
            /\ ~Has(Got(U))

\* The requests of C40: every action, sender, target (given, missing) and
\* payload (given, missing).
RejectInputs ==
    [action : {"offer", "answer", "invalid"}, roomId : RoomIds, peerId : PeerIds,
     target : {""} \cup PeerIds, payload : {0, nextId}]

Rejected(q) ==
    RejectedOp(rooms, q.action, q.roomId, q.peerId, q.target, q.payload, now)

\* C40 as stated: a request the store rejects leaves the store as it was.
C40_RejectedLeavesStore ==
    \A q \in RejectInputs :
        (q.target # q.peerId /\ ~Rejected(q).resp.success) => Rejected(q).rooms = rooms

\* C40: a request the store rejects deposits no record and creates no
\* mailbox for its target; like every request it creates the room and the
\* sender's mailbox when absent and refreshes the room's lastActivity and
\* the sender's lastSeen, and it changes nothing else.
C40_RejectedOnlyTouches ==
    \A q \in RejectInputs :
        (q.target # q.peerId /\ ~Rejected(q).resp.success) =>
            LET old == rooms[q.roomId]
                new == Rejected(q).rooms[q.roomId]
                Ids(ps) == {ps[i].peerId : i \in 1..Len(ps)}
            IN  /\ Rejected(q).rooms = Touch(rooms, q.roomId, q.peerId, now)
                /\ FlatMap(new.peers, "offers") = FlatMap(old.peers, "offers")
                /\ FlatMap(new.peers, "answers") = FlatMap(old.peers, "answers")
                /\ Ids(new.peers) = Ids(old.peers) \cup {q.peerId}
                /\ new.exists
                /\ new.lastActivity = now
                /\ new.peers[PeerIndex(new.peers, q.peerId)].lastSeen = now
                /\ new.hostPeerId = old.hostPeerId
                /\ \A i \in 1..Len(old.peers) :
                      old.peers[i].peerId # q.peerId => new.peers[i] = old.peers[i]

\* The room holds a record and the mailbox of one peer only, last seen
\* before now: that peer's answer to the other peer is rejected (unknown
\* target) and refreshes its mailbox.
C40_Witness ==
    \E p \in PeerIds :
        LET ps == rooms["R1"].peers
        IN  /\ rooms["R1"].exists
            /\ {ps[i].peerId : i \in 1..Len(ps)} = {p}
            /\ ps[1].lastSeen < now
            /\ ~AnswerOp(rooms, "R1", p, Other(p), nextId, now).resp.success

====
